---------------------------- MODULE Spec2Model ----------------------------
(***************************************************************************)
(* A model of the Full Width Formatter ("Indentor"): the line transformer  *)
(* of flat text (process_text_lines and the transform inside               *)
(* process_txt_file), the flat-text pipeline with its encoding detection   *)
(* and codecs, the output path resolver, the document mutator and the      *)
(* sequential batch worker.                                                *)
(*                                                                         *)
(* Text is a sequence of Unicode code points, a file a sequence of bytes.  *)
(***************************************************************************)
EXTENDS Integers, Sequences, FiniteSets, TLC

VARIABLES
    hist,            \* SpecLines: the texts <<t, T(t), T(T(t)), ...>>
    via,             \* SpecLines: which transform produced hist[i+1] from hist[i]
    files,           \* SpecTxt: the bytes <<source file, its output, the output's output>>
    tags,            \* SpecTxt: the encoding detect_encoding returned in each run
    fs,              \* SpecBatch: the file system, path |-> content of each existing file
    batch,           \* SpecBatch: ProcessorWorker.files, the source paths in list order
    done,            \* SpecBatch: how many files of the batch the worker's loop has left behind
    results,         \* SpecBatch: the TaskResults emitted through the progress signal
    finished,        \* SpecBatch: whether finished_all was emitted
    resolved,        \* SpecBatch: what each call of resolve_output_path saw and returned
    buffer,          \* SpecDetect: the bytes handed to detect_encoding
    detection,       \* SpecDetect: what the guesser did and what detect_encoding returned
    docs,            \* SpecDocx: <<document, the document saved, the saved one processed again>>
    clip,            \* SpecClip: the clipboard window, its input and result boxes and its history
    settings_file,   \* SpecSettings, SpecApp: what formatter_settings.json holds
    dirs,            \* SpecSettings, SpecApp: the paths that exist
    loaded,          \* SpecSettings: what load_settings returned
    app,             \* SpecApp, SpecApp000: the fields of IndentorApp
    workers,         \* SpecApp, SpecApp000: the ProcessorWorker objects created, oldest first
    queue,           \* SpecApp, SpecApp000: the signals posted to the GUI thread, not yet delivered
    progress_calls,  \* SpecApp, SpecApp000: what each call of on_progress did
    clicks           \* SpecApp, SpecApp000: how many user actions were taken

lineVars == <<hist, via>>
txtVars == <<files, tags>>
batchVars == <<fs, batch, done, results, finished, resolved>>
detVars == <<buffer, detection>>
docVars == <<docs>>
clipVars == <<clip>>
diskVars == <<settings_file, dirs>>
setVars == <<loaded>>
appVars == <<app, workers, queue, progress_calls, clicks>>
uiVars == <<clipVars, diskVars, setVars, appVars>>
vars ==
    <<hist, via, files, tags, fs, batch, done, results, finished, resolved,
      buffer, detection, docs, clip, settings_file, dirs, loaded, app,
      workers, queue, progress_calls, clicks>>

---------------------------------------------------------------------------
(* Code points the source names.                                           *)

FULL_WIDTH_SPACE == 12288
TAB == 9
LF == 10
FF == 12
CR == 13
SPACE == 32

FW2 == <<FULL_WIDTH_SPACE, FULL_WIDTH_SPACE>>

(* The code points str.strip() with no argument removes (str.isspace).     *)
WHITESPACE ==
    {9, 10, 11, 12, 13, 28, 29, 30, 31, 32, 133, 160, 5760}
        \cup (8192..8202) \cup {8232, 8233, 8239, 8287, 12288}

(* The code points str.splitlines() ends a line at.                        *)
LINEBREAKS == {10, 11, 12, 13, 28, 29, 30, 133, 8232, 8233}

---------------------------------------------------------------------------
(* Bounds of the line transformer's specification.                         *)

MaxLen == 4
MaxPasses == 2

(* "a", space, tab, "\n", "\r", form feed and the full-width space.          *)
Chars == {97, SPACE, TAB, LF, CR, FF, FULL_WIDTH_SPACE}

Texts == UNION {[1..n -> Chars] : n \in 0..MaxLen}

---------------------------------------------------------------------------
(* Python's string operations, as the transform uses them.                 *)

Min(S) == CHOOSE x \in S : \A y \in S : x <= y

Max(S) == CHOOSE x \in S : \A y \in S : x >= y

endswith(s, suffix) ==
    /\ Len(s) >= Len(suffix)
    /\ SubSeq(s, Len(s) - Len(suffix) + 1, Len(s)) = suffix

startswith(s, prefix) ==
    /\ Len(s) >= Len(prefix)
    /\ SubSeq(s, 1, Len(prefix)) = prefix

(* s.lstrip(chars): s without its longest prefix made of chars.            *)
lstrip(s, chars) ==
    LET keep == {i \in 1..Len(s) : s[i] \notin chars}
    IN  IF keep = {} THEN <<>> ELSE SubSeq(s, Min(keep), Len(s))

(* s.strip(): s without leading and trailing whitespace.                   *)
strip(s) ==
    LET keep == {i \in 1..Len(s) : s[i] \notin WHITESPACE}
    IN  IF keep = {} THEN <<>> ELSE SubSeq(s, Min(keep), Max(keep))

(* The length of the first line of a non-empty s, its line break included, *)
(* where a line ends at a code point of breaks and "\r\n" is one break.    *)
FirstLineLen(s, breaks) ==
    LET at == {i \in 1..Len(s) : s[i] \in breaks}
    IN  IF at = {} THEN Len(s)
        ELSE LET i == Min(at)
             IN  IF s[i] = CR /\ i < Len(s) /\ s[i + 1] = LF THEN i + 1 ELSE i

RECURSIVE SplitKeepEnds(_, _)
SplitKeepEnds(s, breaks) ==
    IF s = <<>> THEN <<>>
    ELSE LET k == FirstLineLen(s, breaks)
         IN  <<SubSeq(s, 1, k)>> \o SplitKeepEnds(SubSeq(s, k + 1, Len(s)), breaks)

(* text.splitlines(keepends=True)                                          *)
splitlines(text) == SplitKeepEnds(text, LINEBREAKS)

(* "".join(parts)                                                          *)
RECURSIVE join(_)
join(parts) ==
    IF parts = <<>> THEN <<>> ELSE Head(parts) \o join(Tail(parts))

---------------------------------------------------------------------------
(* The line transformer.                                                   *)

(* The line ending transform_line separates from the content.              *)
eol_of(line) ==
    IF endswith(line, <<CR, LF>>) THEN <<CR, LF>>
    ELSE IF endswith(line, <<LF>>) THEN <<LF>>
    ELSE IF endswith(line, <<CR>>) THEN <<CR>>
    ELSE <<>>

core_of(line) == SubSeq(line, 1, Len(line) - Len(eol_of(line)))

(* Mutant: the idempotence test on the two markers is missing.             *)
transform_line_always_prefix(line) ==
    LET core == core_of(line)
        eol == eol_of(line)
    IN  IF strip(core) = <<>> THEN core \o eol
        ELSE FW2 \o lstrip(core, {SPACE, TAB}) \o eol

(* Mutant: the line ending is normalised to "\n".                          *)
transform_line_unix_eol(line) ==
    LET core == core_of(line)
        eol == eol_of(line)
    IN  IF strip(core) = <<>> THEN core \o eol
        ELSE IF startswith(core, FW2) THEN core \o eol
        ELSE FW2 \o lstrip(core, {SPACE, TAB}) \o (IF eol = <<>> THEN eol ELSE <<LF>>)

(* process_text_lines.transform_line                                       *)
transform_line(line) ==
    LET core == core_of(line)
        eol == eol_of(line)
    IN  IF strip(core) = <<>> THEN core \o eol
        ELSE IF startswith(core, FW2) THEN core \o eol
        ELSE FW2 \o lstrip(core, {SPACE, TAB}) \o eol

(* Mutant: the text is transformed as one line.                            *)
process_text_lines_as_one_line(text) ==
    IF text = <<>> THEN text ELSE transform_line(text)

process_text_lines(text) ==
    IF text = <<>> THEN text
    ELSE LET lines == splitlines(text)
         IN  join([i \in 1..Len(lines) |-> transform_line(lines[i])])

(* process_txt_file.transform_line                                         *)
txt_transform_line(line) ==
    LET core == core_of(line)
        eol == eol_of(line)
    IN  IF strip(core) = <<>> THEN core \o eol
        ELSE IF startswith(core, FW2) THEN core \o eol
        ELSE FW2 \o lstrip(core, {SPACE, TAB}) \o eol

(* The text process_txt_file computes from the decoded text.               *)
txt_new_text(text) ==
    LET lines == splitlines(text)
    IN  join([i \in 1..Len(lines) |-> txt_transform_line(lines[i])])

---------------------------------------------------------------------------
(* The codecs data.decode(enc, errors="replace") and                       *)
(* write_text(new_text, encoding=enc, errors="replace", newline="") use.   *)

REPLACEMENT == 65533
BOM_CHAR == 65279
QUESTION_MARK == 63

BOM_UTF8 == <<239, 187, 191>>
BOM_UTF32_LE == <<255, 254, 0, 0>>
BOM_UTF32_BE == <<0, 0, 254, 255>>
BOM_UTF16_LE == <<255, 254>>
BOM_UTF16_BE == <<254, 255>>

IsSurrogate(cp) == cp >= 55296 /\ cp <= 57343

IsContinuation(b) == b >= 128 /\ b <= 191

Drop(s, n) == SubSeq(s, n + 1, Len(s))

(* One code point as UTF-8; a surrogate cannot be encoded and becomes "?". *)
utf8_encode_char(cp) ==
    IF IsSurrogate(cp) THEN <<QUESTION_MARK>>
    ELSE IF cp < 128 THEN <<cp>>
    ELSE IF cp < 2048 THEN <<192 + (cp \div 64), 128 + (cp % 64)>>
    ELSE IF cp < 65536
         THEN <<224 + (cp \div 4096), 128 + ((cp \div 64) % 64), 128 + (cp % 64)>>
    ELSE <<240 + (cp \div 262144), 128 + ((cp \div 4096) % 64),
           128 + ((cp \div 64) % 64), 128 + (cp % 64)>>

utf8_encode(text) == join([i \in 1..Len(text) |-> utf8_encode_char(text[i])])

(* The second byte a UTF-8 lead byte accepts.                              *)
Utf8SecondOk(lead, b) ==
    IF lead = 224 THEN b >= 160 /\ b <= 191
    ELSE IF lead = 237 THEN b >= 128 /\ b <= 159
    ELSE IF lead = 240 THEN b >= 144 /\ b <= 191
    ELSE IF lead = 244 THEN b >= 128 /\ b <= 143
    ELSE IsContinuation(b)

(* UTF-8 decoding with errors="replace": every maximal ill-formed prefix   *)
(* becomes one U+FFFD.                                                     *)
RECURSIVE utf8_decode(_)
utf8_decode(b) ==
    IF b = <<>> THEN <<>>
    ELSE LET b1 == b[1]
             n == Len(b)
         IN  IF b1 < 128 THEN <<b1>> \o utf8_decode(Drop(b, 1))
             ELSE IF b1 >= 194 /\ b1 <= 223
             THEN IF n >= 2 /\ IsContinuation(b[2])
                  THEN <<(b1 - 192) * 64 + (b[2] - 128)>> \o utf8_decode(Drop(b, 2))
                  ELSE <<REPLACEMENT>> \o utf8_decode(Drop(b, 1))
             ELSE IF b1 >= 224 /\ b1 <= 239
             THEN IF ~(n >= 2 /\ Utf8SecondOk(b1, b[2]))
                  THEN <<REPLACEMENT>> \o utf8_decode(Drop(b, 1))
                  ELSE IF ~(n >= 3 /\ IsContinuation(b[3]))
                  THEN <<REPLACEMENT>> \o utf8_decode(Drop(b, 2))
                  ELSE <<(b1 - 224) * 4096 + (b[2] - 128) * 64 + (b[3] - 128)>>
                           \o utf8_decode(Drop(b, 3))
             ELSE IF b1 >= 240 /\ b1 <= 244
             THEN IF ~(n >= 2 /\ Utf8SecondOk(b1, b[2]))
                  THEN <<REPLACEMENT>> \o utf8_decode(Drop(b, 1))
                  ELSE IF ~(n >= 3 /\ IsContinuation(b[3]))
                  THEN <<REPLACEMENT>> \o utf8_decode(Drop(b, 2))
                  ELSE IF ~(n >= 4 /\ IsContinuation(b[4]))
                  THEN <<REPLACEMENT>> \o utf8_decode(Drop(b, 3))
                  ELSE <<(b1 - 240) * 262144 + (b[2] - 128) * 4096
                           + (b[3] - 128) * 64 + (b[4] - 128)>>
                           \o utf8_decode(Drop(b, 4))
             ELSE <<REPLACEMENT>> \o utf8_decode(Drop(b, 1))

(* "utf-8-sig": a leading BOM is dropped on decoding and written on        *)
(* encoding, also for the empty text.                                      *)
utf8sig_decode(b) ==
    IF startswith(b, BOM_UTF8) THEN utf8_decode(Drop(b, 3)) ELSE utf8_decode(b)

utf8sig_encode(text) == BOM_UTF8 \o utf8_encode(text)

ascii_decode(b) ==
    [i \in 1..Len(b) |-> IF b[i] < 128 THEN b[i] ELSE REPLACEMENT]

ascii_encode(text) ==
    [i \in 1..Len(text) |-> IF text[i] < 128 THEN text[i] ELSE QUESTION_MARK]

(* The 16-bit units of a code point.                                       *)
utf16_units(cp) ==
    IF IsSurrogate(cp) THEN <<QUESTION_MARK>>
    ELSE IF cp < 65536 THEN <<cp>>
    ELSE <<55296 + ((cp - 65536) \div 1024), 56320 + ((cp - 65536) % 1024)>>

unit_bytes(u, little) ==
    IF little THEN <<u % 256, u \div 256>> ELSE <<u \div 256, u % 256>>

utf16_encode_char(cp, little) ==
    LET us == utf16_units(cp)
    IN  join([i \in 1..Len(us) |-> unit_bytes(us[i], little)])

(* "utf-16-le" and "utf-16-be" write no BOM.                               *)
utf16_encode(text, little) ==
    join([i \in 1..Len(text) |-> utf16_encode_char(text[i], little)])

unit_at(b, i, little) ==
    IF little THEN b[i] + 256 * b[i + 1] ELSE 256 * b[i] + b[i + 1]

(* "utf-16-le" and "utf-16-be" with errors="replace": no BOM is looked     *)
(* for, so a leading FF FE decodes to U+FEFF, the first character of the   *)
(* text; a lone surrogate and a trailing odd byte become U+FFFD.           *)
RECURSIVE utf16_decode(_, _)
utf16_decode(b, little) ==
    IF b = <<>> THEN <<>>
    ELSE IF Len(b) = 1 THEN <<REPLACEMENT>>
    ELSE LET u == unit_at(b, 1, little)
         IN  IF ~IsSurrogate(u) THEN <<u>> \o utf16_decode(Drop(b, 2), little)
             ELSE IF u <= 56319 /\ Len(b) >= 4
                     /\ unit_at(b, 3, little) >= 56320
                     /\ unit_at(b, 3, little) <= 57343
             THEN <<65536 + (u - 55296) * 1024 + (unit_at(b, 3, little) - 56320)>>
                      \o utf16_decode(Drop(b, 4), little)
             ELSE <<REPLACEMENT>> \o utf16_decode(Drop(b, 2), little)

word_at(b, i, little) ==
    IF little THEN b[i] + 256 * b[i + 1] + 65536 * b[i + 2] + 16777216 * b[i + 3]
    ELSE 16777216 * b[i] + 65536 * b[i + 1] + 256 * b[i + 2] + b[i + 3]

RECURSIVE utf32_decode_words(_, _)
utf32_decode_words(b, little) ==
    IF b = <<>> THEN <<>>
    ELSE IF Len(b) < 4 THEN <<REPLACEMENT>>
    ELSE LET w == word_at(b, 1, little)
         IN  (IF w > 1114111 \/ IsSurrogate(w) THEN <<REPLACEMENT>> ELSE <<w>>)
                 \o utf32_decode_words(Drop(b, 4), little)

(* "utf-32": the BOM chooses the byte order and is dropped; without one    *)
(* the machine's order (little-endian) is used.                            *)
utf32_decode(b) ==
    IF startswith(b, BOM_UTF32_LE) THEN utf32_decode_words(Drop(b, 4), TRUE)
    ELSE IF startswith(b, BOM_UTF32_BE) THEN utf32_decode_words(Drop(b, 4), FALSE)
    ELSE utf32_decode_words(b, TRUE)

utf32_encode_char(cp) ==
    LET c == IF IsSurrogate(cp) THEN QUESTION_MARK ELSE cp
    IN  <<c % 256, (c \div 256) % 256, (c \div 65536) % 256, c \div 16777216>>

(* "utf-32" writes the little-endian BOM, also for the empty text.         *)
utf32_encode(text) ==
    BOM_UTF32_LE \o join([i \in 1..Len(text) |-> utf32_encode_char(text[i])])

(* data.decode(enc, errors="replace")                                      *)
decode(data, enc) ==
    CASE enc = "utf-8-sig" -> utf8sig_decode(data)
      [] enc = "utf-32" -> utf32_decode(data)
      [] enc = "utf-16-le" -> utf16_decode(data, TRUE)
      [] enc = "utf-16-be" -> utf16_decode(data, FALSE)
      [] enc = "ascii" -> ascii_decode(data)
      [] OTHER -> utf8_decode(data)

(* The bytes write_text(text, encoding=enc, errors="replace", newline="")  *)
(* writes: no newline translation, unencodable characters become "?".      *)
encode(text, enc) ==
    CASE enc = "utf-8-sig" -> utf8sig_encode(text)
      [] enc = "utf-32" -> utf32_encode(text)
      [] enc = "utf-16-le" -> utf16_encode(text, TRUE)
      [] enc = "utf-16-be" -> utf16_encode(text, FALSE)
      [] enc = "ascii" -> ascii_encode(text)
      [] OTHER -> utf8_encode(text)

---------------------------------------------------------------------------
(* The encoding detector.                                                  *)

(* The labels the statistical guesser is taken to answer with.             *)
GUESS_LABELS == {"ascii", "utf_8"}

(* The guesser answers only with an encoding the bytes decode under        *)
(* without an error.                                                       *)
DecodesStrictly(data, label) ==
    IF label = "ascii" THEN \A i \in 1..Len(data) : data[i] < 128
    ELSE utf8_encode(utf8_decode(data)) = data

(* What from_bytes(data).best() can do: raise, return None, return a match *)
(* whose label is empty, or return a match with a label.                   *)
GuessOutcomes(data) ==
    {[kind |-> "raise", encoding |-> ""], [kind |-> "none", encoding |-> ""],
     [kind |-> "match", encoding |-> ""]}
        \cup {[kind |-> "match", encoding |-> l] :
                 l \in {x \in GUESS_LABELS : DecodesStrictly(data, x)}}

(* Mutant: the two-byte UTF-16 marks are looked for before the four-byte   *)
(* UTF-32 marks.                                                           *)
detect_encoding_utf16_first(data, guess) ==
    IF startswith(data, BOM_UTF8) THEN "utf-8-sig"
    ELSE IF startswith(data, BOM_UTF16_LE) THEN "utf-16-le"
    ELSE IF startswith(data, BOM_UTF16_BE) THEN "utf-16-be"
    ELSE IF startswith(data, BOM_UTF32_LE) \/ startswith(data, BOM_UTF32_BE)
    THEN "utf-32"
    ELSE IF guess.kind = "match" /\ guess.encoding # "" THEN guess.encoding
    ELSE "utf-8"

detect_encoding(data, guess) ==
    IF startswith(data, BOM_UTF8) THEN "utf-8-sig"
    ELSE IF startswith(data, BOM_UTF32_LE) \/ startswith(data, BOM_UTF32_BE)
    THEN "utf-32"
    ELSE IF startswith(data, BOM_UTF16_LE) THEN "utf-16-le"
    ELSE IF startswith(data, BOM_UTF16_BE) THEN "utf-16-be"
    ELSE IF guess.kind = "match" /\ guess.encoding # "" THEN guess.encoding
    ELSE "utf-8"

---------------------------------------------------------------------------
(* The flat-text pipeline, from the bytes read to the bytes written.       *)

(* The bytes process_txt_file writes for the bytes data it read, enc being *)
(* what detect_encoding returned for them.                                 *)
txt_output(data, enc) == encode(txt_new_text(decode(data, enc)), enc)

---------------------------------------------------------------------------
(* The file system and the path resolver.                                  *)

(* A source path: its directory, Path(name).stem and Path(name).suffix.    *)
NameOf(src) == src.stem \o src.suffix

PathIn(dir, name) == dir \o "/" \o name

PathOf(src) == PathIn(src.dir, NameOf(src))

(* candidate.exists()                                                      *)
exists(fsys, path) == path \in DOMAIN fsys

(* The loop of resolve_output_path, entered with i.                        *)
RECURSIVE resolve_numbered(_, _, _, _, _)
resolve_numbered(fsys, out_dir, base, ext, i) ==
    LET candidate == PathIn(out_dir, base \o "_indent" \o ToString(i) \o ext)
    IN  IF ~exists(fsys, candidate) THEN candidate
        ELSE resolve_numbered(fsys, out_dir, base, ext, i + 1)

(* Mutant: the numbered candidates start at 2, as "_copy(2)" would.        *)
resolve_output_path_from_2(fsys, out_dir, base, ext) ==
    IF ~exists(fsys, PathIn(out_dir, base \o ext))
    THEN PathIn(out_dir, base \o ext)
    ELSE IF ~exists(fsys, PathIn(out_dir, base \o "_indent" \o ext))
    THEN PathIn(out_dir, base \o "_indent" \o ext)
    ELSE resolve_numbered(fsys, out_dir, base, ext, 2)

(* Mutant: the "_indent" candidate is returned without a look at the       *)
(* directory.                                                              *)
resolve_output_path_unchecked_indent(fsys, out_dir, base, ext) ==
    IF ~exists(fsys, PathIn(out_dir, base \o ext))
    THEN PathIn(out_dir, base \o ext)
    ELSE PathIn(out_dir, base \o "_indent" \o ext)

(* Mutant: the directory is not looked at: always name.ext.                *)
resolve_output_path_same_name(fsys, out_dir, base, ext) ==
    PathIn(out_dir, base \o ext)

(* resolve_output_path(out_dir, src_name), base and ext being the stem and *)
(* the suffix of src_name, in the file system fsys.                        *)
resolve_output_path(fsys, out_dir, base, ext) ==
    IF ~exists(fsys, PathIn(out_dir, base \o ext))
    THEN PathIn(out_dir, base \o ext)
    ELSE IF ~exists(fsys, PathIn(out_dir, base \o "_indent" \o ext))
    THEN PathIn(out_dir, base \o "_indent" \o ext)
    ELSE resolve_numbered(fsys, out_dir, base, ext, 1)

(* A file's content: the bytes of a flat file, or the paragraphs of a      *)
(* document.                                                               *)
BytesContent(data) == [kind |-> "bytes", data |-> data, doc |-> <<>>]

DocxContent(doc) == [kind |-> "docx", data |-> <<>>, doc |-> doc]

(* out_path.write_text(...) and doc.save(out_path): the file is created,   *)
(* or replaced when it exists.                                             *)
write_file(fsys, path, content) ==
    [q \in DOMAIN fsys \cup {path} |-> IF q = path THEN content ELSE fsys[q]]

---------------------------------------------------------------------------
(* The document mutator. A paragraph is [style, numbered, runs]: what       *)
(* p.style.name gives, whether the paragraph carries list numbering (which *)
(* is a paragraph property, not text), and the texts of its runs in order, *)
(* "\n" in a run's text being a soft line break. A document is             *)
(* [body, tables]; a table is [cells, rows], cells holding the paragraphs  *)
(* of each cell of the table and rows[r][c] the cell row.cells gives at    *)
(* column c of row r: a merged cell stands at several places.              *)

(* "Heading", "\u6807\u9898", "Zagolovok" in Cyrillic letters,           *)
(* "\u00dcberschrift" and "Rubrik", as code points.                        *)
HEADING_KEYWORDS ==
    {<<72, 101, 97, 100, 105, 110, 103>>,
     <<26631, 39064>>,
     <<1047, 1072, 1075, 1086, 1083, 1086, 1074, 1086, 1082>>,
     <<220, 98, 101, 114, 115, 99, 104, 114, 105, 102, 116>>,
     <<82, 117, 98, 114, 105, 107>>}

(* A style whose name is the text name, whose name is None, or whose name  *)
(* cannot be read.                                                         *)
StyleNamed(name) == [kind |-> "name", name |-> name]

StyleNameNone == [kind |-> "none", name |-> <<>>]

StyleNameRaises == [kind |-> "raise", name |-> <<>>]

(* k in name                                                               *)
contains(name, k) ==
    \E i \in 1..(Len(name) - Len(k) + 1) : SubSeq(name, i, i + Len(k) - 1) = k

(* p.text, the texts of the runs one after the other.                      *)
paragraph_text(p) == join(p.runs)

(* Mutant: the text is not stripped before it is compared with "".         *)
paragraph_has_text_unstripped(p) == paragraph_text(p) # <<>>

paragraph_has_text(p) == strip(paragraph_text(p)) # <<>>

(* Mutant: the style name is compared with the keywords for equality.      *)
is_heading_style_exact(p) ==
    (IF p.style.kind = "name" THEN p.style.name ELSE <<>>) \in HEADING_KEYWORDS

is_heading_style(p) ==
    LET name == IF p.style.kind = "name" THEN p.style.name ELSE <<>>
    IN  \E k \in HEADING_KEYWORDS : contains(name, k)

(* run.text = t: "\n" and "\r" are both stored as a line break, which is   *)
(* read back as "\n".                                                      *)
set_run_text(t) == [i \in 1..Len(t) |-> IF t[i] = CR THEN LF ELSE t[i]]

(* run.text.split("\n")                                                    *)
RECURSIVE split_lf(_)
split_lf(t) ==
    LET at == {i \in 1..Len(t) : t[i] = LF}
    IN  IF at = {} THEN <<t>>
        ELSE <<SubSeq(t, 1, Min(at) - 1)>> \o split_lf(Drop(t, Min(at)))

(* "\n".join(parts)                                                        *)
RECURSIVE join_lf(_)
join_lf(parts) ==
    IF Len(parts) = 1 THEN parts[1]
    ELSE parts[1] \o <<LF>> \o join_lf(Tail(parts))

(* The loop over the soft line breaks of one run's text.                   *)
soft_breaks(t) ==
    IF \E i \in 1..Len(t) : t[i] = LF
    THEN LET parts == split_lf(t)
         IN  set_run_text(
                 join_lf([i \in 1..Len(parts) |->
                            IF i > 1 /\ parts[i] # <<>> /\ ~startswith(parts[i], FW2)
                            THEN FW2 \o lstrip(parts[i], {SPACE, TAB})
                            ELSE parts[i]]))
    ELSE t

(* for run in p.runs: the loop over the runs of the paragraph.              *)
RECURSIVE soft_breaks_in_runs(_)
soft_breaks_in_runs(runs) ==
    IF runs = <<>> THEN <<>>
    ELSE <<soft_breaks(Head(runs))>> \o soft_breaks_in_runs(Tail(runs))

(* Mutant: the test "full.startswith(FW2)" is missing.                     *)
ensure_fw2_without_idempotency_check(p) ==
    IF ~paragraph_has_text(p) THEN p
    ELSE IF is_heading_style(p) THEN p
    ELSE LET first ==
                 IF p.runs # <<>>
                 THEN [p.runs EXCEPT ![1] = set_run_text(FW2 \o lstrip(@, {SPACE, TAB}))]
                 ELSE <<FW2>>
         IN  [p EXCEPT !.runs = soft_breaks_in_runs(first)]

(* Mutant: the paragraph's text is set as a whole (p.text = ...), which    *)
(* leaves one run.                                                         *)
ensure_fw2_by_paragraph_text(p) ==
    IF ~paragraph_has_text(p) THEN p
    ELSE IF is_heading_style(p) THEN p
    ELSE IF startswith(paragraph_text(p), FW2) THEN p
    ELSE [p EXCEPT !.runs =
              <<soft_breaks(set_run_text(FW2 \o lstrip(paragraph_text(p), {SPACE, TAB})))>>]

ensure_fw2_at_paragraph_start(p) ==
    IF ~paragraph_has_text(p) THEN p
    ELSE IF is_heading_style(p) THEN p
    ELSE IF startswith(paragraph_text(p), FW2) THEN p
    ELSE LET first ==
                 IF p.runs # <<>>
                 THEN [p.runs EXCEPT ![1] = set_run_text(FW2 \o lstrip(@, {SPACE, TAB}))]
                 ELSE p.runs \o <<FW2>>
         IN  [p EXCEPT !.runs = soft_breaks_in_runs(first)]

(* for p in paragraphs: ensure_fw2_at_paragraph_start(p)                   *)
RECURSIVE mutate_paragraphs(_)
mutate_paragraphs(paragraphs) ==
    IF paragraphs = <<>> THEN <<>>
    ELSE <<ensure_fw2_at_paragraph_start(Head(paragraphs))>>
             \o mutate_paragraphs(Tail(paragraphs))

(* The cells of a table after the loops over its rows and their cells,     *)
(* visits being the cells in the order the loops reach them.               *)
RECURSIVE visit_cells(_, _)
visit_cells(cells, visits) ==
    IF visits = <<>> THEN cells
    ELSE visit_cells([cells EXCEPT ![Head(visits)] = mutate_paragraphs(@)],
                     Tail(visits))

mutate_table(table) ==
    [table EXCEPT !.cells = visit_cells(table.cells, join(table.rows))]

(* Mutant: the loop over doc.tables is missing.                            *)
docx_mutated_body_only(doc) ==
    [doc EXCEPT !.body = mutate_paragraphs(doc.body)]

(* The document process_docx_file saves.                                   *)
RECURSIVE mutate_tables(_)
mutate_tables(tables) ==
    IF tables = <<>> THEN <<>>
    ELSE <<mutate_table(Head(tables))>> \o mutate_tables(Tail(tables))

docx_mutated(doc) ==
    [body |-> mutate_paragraphs(doc.body), tables |-> mutate_tables(doc.tables)]

---------------------------------------------------------------------------
(* The two pipelines on the file system, and the worker's loop body. Each  *)
(* gives [ok, dst, message, fs, resolved]: whether it returned or raised,  *)
(* the path returned, str(e), the file system it leaves, and the calls of  *)
(* resolve_output_path it made.                                            *)

NONE == "None"

(* Mutant: the failure is reported with the path that was resolved before  *)
(* the exception.                                                          *)
Raised_with_resolved_dst(fsys, message, calls) ==
    [ok |-> FALSE, dst |-> IF calls = <<>> THEN NONE ELSE calls[1].path,
     message |-> message, fs |-> fsys, resolved |-> calls]

Raised(fsys, message, calls) ==
    [ok |-> FALSE, dst |-> NONE, message |-> message, fs |-> fsys, resolved |-> calls]

Returned(fsys, dst, calls) ==
    [ok |-> TRUE, dst |-> dst, message |-> "Done", fs |-> fsys, resolved |-> calls]

ResolveCall(fsys, src, path) ==
    [stem |-> src.stem, suffix |-> src.suffix, listing |-> DOMAIN fsys, path |-> path]

(* process_txt_file(src, out_dir); guess is what the guesser does, and     *)
(* writable whether the destination can be created.                        *)
process_txt_file(fsys, src, out_dir, guess, writable) ==
    IF ~exists(fsys, PathOf(src))
    THEN Raised(fsys, "No such file or directory", <<>>)
    ELSE LET data == fsys[PathOf(src)].data
             enc == detect_encoding(data, guess)
             out_path == resolve_output_path(fsys, out_dir, src.stem, src.suffix)
             calls == <<ResolveCall(fsys, src, out_path)>>
         IN  IF ~writable THEN Raised(fsys, "Permission denied", calls)
             ELSE Returned(write_file(fsys, out_path, BytesContent(txt_output(data, enc))),
                           out_path, calls)

(* process_docx_file(src, out_dir)                                         *)
process_docx_file(fsys, src, out_dir, writable) ==
    IF ~exists(fsys, PathOf(src)) \/ fsys[PathOf(src)].kind # "docx"
    THEN Raised(fsys, "Package not found", <<>>)
    ELSE LET doc == docx_mutated(fsys[PathOf(src)].doc)
             out_path == resolve_output_path(fsys, out_dir, src.stem, src.suffix)
             calls == <<ResolveCall(fsys, src, out_path)>>
         IN  IF ~writable THEN Raised(fsys, "Permission denied", calls)
             ELSE Returned(write_file(fsys, out_path, DocxContent(doc)), out_path, calls)

(* Mutant: the suffix is compared as it is written.                        *)
lower_as_written(suffix) == suffix

(* f.suffix.lower()                                                        *)
lower(suffix) ==
    CASE suffix = ".TXT" -> ".txt"
      [] suffix = ".Docx" -> ".docx"
      [] OTHER -> suffix

(* The body of the loop of ProcessorWorker.run for the file f.             *)
run_file(fsys, f, out_dir, guess, writable) ==
    LET ext == lower(f.suffix)
    IN  IF ext = ".txt" THEN process_txt_file(fsys, f, out_dir, guess, writable)
        ELSE IF ext = ".docx" THEN process_docx_file(fsys, f, out_dir, writable)
        ELSE Raised(fsys, "Unsupported extension", <<>>)

TaskResult(src, dst, ok, message) ==
    [src |-> src, dst |-> dst, ok |-> ok, message |-> message]

---------------------------------------------------------------------------
(* SpecLines: a text, transformed again and again.                         *)

Last(s) == s[Len(s)]

InitLines ==
    /\ hist \in {<<t>> : t \in Texts}
    /\ via = <<>>
    /\ files = <<>>
    /\ tags = <<>>
    /\ fs = <<>>
    /\ batch = <<>>
    /\ done = 0
    /\ results = <<>>
    /\ finished = FALSE
    /\ resolved = <<>>
    /\ buffer = <<>>
    /\ detection = <<>>
    /\ docs = <<>>
    /\ clip = <<>>
    /\ settings_file = <<>>
    /\ dirs = {}
    /\ loaded = <<>>
    /\ app = <<>>
    /\ workers = <<>>
    /\ queue = <<>>
    /\ progress_calls = <<>>
    /\ clicks = 0

(* Clipboard mode: the input text is replaced by process_text_lines of it. *)
ClipboardTransform ==
    /\ Len(hist) <= MaxPasses
    /\ hist' = Append(hist, process_text_lines(Last(hist)))
    /\ via' = Append(via, "clipboard")
    /\ UNCHANGED <<txtVars, batchVars, detVars, docVars, uiVars>>

(* File mode: the decoded text is replaced by the text written back.       *)
FileTransform ==
    /\ Len(hist) <= MaxPasses
    /\ hist' = Append(hist, txt_new_text(Last(hist)))
    /\ via' = Append(via, "file")
    /\ UNCHANGED <<txtVars, batchVars, detVars, docVars, uiVars>>

NextLines == ClipboardTransform \/ FileTransform

SpecLines == InitLines /\ [][NextLines]_vars

---------------------------------------------------------------------------
(* SpecTxt: one text file through the flat-text pipeline, and its output   *)
(* through the pipeline again.                                             *)

MaxFileLen == 2
MaxRuns == 2

(* "H", space, "\n", "\r" and the full-width space.                         *)
FileChars == {72, SPACE, LF, CR, FULL_WIDTH_SPACE}

FileTexts == UNION {[1..n -> FileChars] : n \in 0..MaxFileLen}

(* How the source file was saved.                                          *)
FileKinds ==
    {"utf-8", "utf-8 BOM", "utf-16 LE BOM", "utf-16 BE BOM", "utf-32 LE BOM",
     "utf-32 BE BOM"}

utf32be_encode(text) ==
    BOM_UTF32_BE
        \o join([i \in 1..Len(text) |->
                    <<0, (text[i] \div 65536) % 256, (text[i] \div 256) % 256,
                      text[i] % 256>>])

SavedAs(text, kind) ==
    CASE kind = "utf-8" -> utf8_encode(text)
      [] kind = "utf-8 BOM" -> utf8sig_encode(text)
      [] kind = "utf-16 LE BOM" -> BOM_UTF16_LE \o utf16_encode(text, TRUE)
      [] kind = "utf-16 BE BOM" -> BOM_UTF16_BE \o utf16_encode(text, FALSE)
      [] kind = "utf-32 LE BOM" -> utf32_encode(text)
      [] kind = "utf-32 BE BOM" -> utf32be_encode(text)

(* "Hello\r\n\r\nWorld\n"                                                  *)
HELLO_WORLD ==
    <<72, 101, 108, 108, 111, 13, 10, 13, 10, 87, 111, 114, 108, 100, 10>>

(* "\u3000\u3000Hello\r\n\r\n\u3000\u3000World\n"                          *)
HELLO_WORLD_INDENTED ==
    FW2 \o <<72, 101, 108, 108, 111, 13, 10, 13, 10>> \o FW2
        \o <<87, 111, 114, 108, 100, 10>>

InputFiles ==
    {SavedAs(t, k) : t \in FileTexts, k \in FileKinds}
        \cup {utf8_encode(HELLO_WORLD)}

InitTxt ==
    /\ files \in {<<d>> : d \in InputFiles}
    /\ tags = <<>>
    /\ hist = <<>>
    /\ via = <<>>
    /\ fs = <<>>
    /\ batch = <<>>
    /\ done = 0
    /\ results = <<>>
    /\ finished = FALSE
    /\ resolved = <<>>
    /\ buffer = <<>>
    /\ detection = <<>>
    /\ docs = <<>>
    /\ clip = <<>>
    /\ settings_file = <<>>
    /\ dirs = {}
    /\ loaded = <<>>
    /\ app = <<>>
    /\ workers = <<>>
    /\ queue = <<>>
    /\ progress_calls = <<>>
    /\ clicks = 0

(* process_txt_file on the newest file: read, detect, decode, transform,   *)
(* encode with the detected encoding, write.                               *)
ProcessTxtFile ==
    /\ Len(files) <= MaxRuns
    /\ \E guess \in GuessOutcomes(Last(files)) :
          LET data == Last(files)
              enc == detect_encoding(data, guess)
          IN  /\ files' = Append(files, txt_output(data, enc))
              /\ tags' = Append(tags, enc)
    /\ UNCHANGED <<lineVars, batchVars, detVars, docVars, uiVars>>

NextTxt == ProcessTxtFile

SpecTxt == InitTxt /\ [][NextTxt]_vars

---------------------------------------------------------------------------
(* SpecDetect: detect_encoding on one byte buffer.                         *)

MaxBufferLen == 4

(* The bytes of the byte order marks, NUL and "H".                         *)
BufferBytes == {0, 72, 187, 191, 239, 254, 255}

Buffers == UNION {[1..n -> BufferBytes] : n \in 0..MaxBufferLen}

InitDetect ==
    /\ buffer \in Buffers
    /\ detection = <<>>
    /\ hist = <<>>
    /\ via = <<>>
    /\ files = <<>>
    /\ tags = <<>>
    /\ fs = <<>>
    /\ batch = <<>>
    /\ done = 0
    /\ results = <<>>
    /\ finished = FALSE
    /\ resolved = <<>>
    /\ docs = <<>>
    /\ clip = <<>>
    /\ settings_file = <<>>
    /\ dirs = {}
    /\ loaded = <<>>
    /\ app = <<>>
    /\ workers = <<>>
    /\ queue = <<>>
    /\ progress_calls = <<>>
    /\ clicks = 0

(* enc = detect_encoding(data), the guesser doing any of what it can do on *)
(* these bytes.                                                            *)
DetectEncoding ==
    /\ detection = <<>>
    /\ \E guess \in GuessOutcomes(buffer) :
          detection' = <<[guess |-> guess, encoding |-> detect_encoding(buffer, guess)]>>
    /\ UNCHANGED buffer
    /\ UNCHANGED <<lineVars, txtVars, batchVars, docVars, uiVars>>

NextDetect == DetectEncoding

SpecDetect == InitDetect /\ [][NextDetect]_vars

---------------------------------------------------------------------------
(* SpecDocx: one document through process_docx_file, and the document it   *)
(* saved through it again.                                                 *)

MaxParaLen == 3
MaxParaRuns == 2

(* "H", space, the soft line break and the full-width space. run.text      *)
(* gives "\n" for a line break and never "\r".                             *)
DocChars == {72, SPACE, LF, FULL_WIDTH_SPACE}

ParaTexts == UNION {[1..n -> DocChars] : n \in 0..MaxParaLen}

(* The ways to cut n code points into k runs: where each run but the last  *)
(* ends. A run may be empty.                                               *)
Cuts(n, k) ==
    {c \in [1..(k - 1) -> 0..n] : \A i \in 1..(k - 2) : c[i] <= c[i + 1]}

CutInto(t, k, c) ==
    [i \in 1..k |->
        SubSeq(t, (IF i = 1 THEN 0 ELSE c[i - 1]) + 1, IF i = k THEN Len(t) ELSE c[i])]

(* "Normal", "Heading 1" and "\u6807\u9898 2".                          *)
STYLE_NORMAL == StyleNamed(<<78, 111, 114, 109, 97, 108>>)

STYLE_HEADING_1 == StyleNamed(<<72, 101, 97, 100, 105, 110, 103, 32, 49>>)

STYLE_BIAOTI_2 == StyleNamed(<<26631, 39064, 32, 50>>)

ParagraphFormats ==
    {[style |-> STYLE_NORMAL, numbered |-> FALSE],
     [style |-> STYLE_NORMAL, numbered |-> TRUE],
     [style |-> STYLE_HEADING_1, numbered |-> FALSE],
     [style |-> STYLE_BIAOTI_2, numbered |-> TRUE],
     [style |-> StyleNameNone, numbered |-> FALSE],
     [style |-> StyleNameRaises, numbered |-> FALSE]}

TITLE_PARAGRAPH == [style |-> STYLE_HEADING_1, numbered |-> FALSE, runs |-> <<<<72>>>>]

EMPTY_PARAGRAPH == [style |-> STYLE_NORMAL, numbered |-> FALSE, runs |-> <<>>]

(* A document with p in its body and in its table. The table has two rows  *)
(* of three columns: the first cell spans two columns of the first row,    *)
(* the second cell the last column of both rows, the third cell two        *)
(* columns of the second row.                                              *)
DocumentWith(p) ==
    [body |-> <<p>>,
     tables |->
         <<[cells |-> <<<<p>>, <<TITLE_PARAGRAPH>>, <<EMPTY_PARAGRAPH>>>>,
            rows |-> <<<<1, 1, 2>>, <<3, 3, 2>>>>]>>]

(* Runs of more than MaxParaLen code points: a first line that has the two *)
(* markers before a soft line break and a line without them, and an        *)
(* indented first run before a run that starts with a soft line break.     *)
SAMPLE_RUNS ==
    {<<FW2 \o <<72, LF, 72>>>>,
     <<FW2 \o <<LF, 72>>>>,
     <<<<SPACE, 72>>, <<LF, 72>>>>}

(* The paragraph p has any format and any runs: none, or up to             *)
(* MaxParaRuns runs that hold up to MaxParaLen code points together, or    *)
(* the runs of a sample.                                                   *)
InitDocx ==
    /\ \E f \in ParagraphFormats :
          \/ \E t \in ParaTexts, k \in 0..MaxParaRuns :
                /\ k = 0 => t = <<>>
                /\ \E c \in Cuts(Len(t), k) :
                      docs = <<DocumentWith([style |-> f.style, numbered |-> f.numbered,
                                             runs |-> CutInto(t, k, c)])>>
          \/ \E r \in SAMPLE_RUNS :
                docs = <<DocumentWith([style |-> f.style, numbered |-> f.numbered,
                                       runs |-> r])>>
    /\ hist = <<>>
    /\ via = <<>>
    /\ files = <<>>
    /\ tags = <<>>
    /\ fs = <<>>
    /\ batch = <<>>
    /\ done = 0
    /\ results = <<>>
    /\ finished = FALSE
    /\ resolved = <<>>
    /\ buffer = <<>>
    /\ detection = <<>>
    /\ clip = <<>>
    /\ settings_file = <<>>
    /\ dirs = {}
    /\ loaded = <<>>
    /\ app = <<>>
    /\ workers = <<>>
    /\ queue = <<>>
    /\ progress_calls = <<>>
    /\ clicks = 0

(* process_docx_file on the newest document: load, mutate the paragraphs   *)
(* of the body and of the tables, save.                                    *)
ProcessDocxFile ==
    /\ Len(docs) <= MaxRuns
    /\ docs' = Append(docs, docx_mutated(Last(docs)))
    /\ UNCHANGED <<lineVars, txtVars, batchVars, detVars, uiVars>>

NextDocx == ProcessDocxFile

SpecDocx == InitDocx /\ [][NextDocx]_vars

---------------------------------------------------------------------------
(* SpecBatch: one worker processing one batch into the output directory.   *)

MaxBatch == 2

OUT_DIR == "out"

(* The paths the file list can hold.                                       *)
SourceFiles ==
    {[dir |-> "src", stem |-> "report", suffix |-> ".txt"],
     [dir |-> "out", stem |-> "report", suffix |-> ".txt"],
     [dir |-> "src", stem |-> "report_indent", suffix |-> ".TXT"],
     [dir |-> "src", stem |-> "report", suffix |-> ".docx"],
     [dir |-> "src", stem |-> "report", suffix |-> ".Docx"],
     [dir |-> "src", stem |-> "notes", suffix |-> ".doc"]}

Batches == UNION {[1..n -> SourceFiles] : n \in 1..MaxBatch}

AlwaysThere ==
    {"src/report.txt", "src/report.docx", "src/report.Docx", "src/notes.doc"}

MaybeThere ==
    {"out/report.txt", "out/report_indent.txt", "out/report_indent1.txt",
     "src/report_indent.TXT"}

(* A document: a heading, an indented paragraph with a soft line break, an *)
(* empty paragraph.                                                        *)
SAMPLE_DOC ==
    [body |->
         <<[style |-> StyleNamed(<<72, 101, 97, 100, 105, 110, 103, 32, 49>>),
            numbered |-> FALSE, runs |-> <<<<72>>>>],
           [style |-> StyleNamed(<<78, 111, 114, 109, 97, 108>>),
            numbered |-> FALSE, runs |-> <<<<SPACE, 72, LF, 72>>, <<72>>>>],
           [style |-> StyleNamed(<<78, 111, 114, 109, 97, 108>>),
            numbered |-> FALSE, runs |-> <<>>]>>,
     tables |-> <<>>]

(* What the files hold before the batch starts; docx_ok is whether         *)
(* src/report.docx and src/report.Docx are documents.                      *)
InitialContent(path, docx_ok) ==
    CASE path \in {"src/report.docx", "src/report.Docx"} ->
             IF docx_ok THEN DocxContent(SAMPLE_DOC) ELSE BytesContent(<<80, 75>>)
      [] path = "out/report.txt" ->
             BytesContent(utf8_encode(FW2 \o <<72, LF>>))
      [] path = "src/report_indent.TXT" ->
             BytesContent(BOM_UTF16_LE \o utf16_encode(<<72>>, TRUE))
      [] OTHER -> BytesContent(utf8_encode(<<SPACE, 72, CR, LF>>))

InitBatch ==
    /\ \E there \in SUBSET MaybeThere, docx_ok \in BOOLEAN :
          fs = [q \in AlwaysThere \cup there |-> InitialContent(q, docx_ok)]
    /\ batch \in Batches
    /\ done = 0
    /\ results = <<>>
    /\ finished = FALSE
    /\ resolved = <<>>
    /\ hist = <<>>
    /\ via = <<>>
    /\ files = <<>>
    /\ tags = <<>>
    /\ buffer = <<>>
    /\ detection = <<>>
    /\ docs = <<>>
    /\ clip = <<>>
    /\ settings_file = <<>>
    /\ dirs = {}
    /\ loaded = <<>>
    /\ app = <<>>
    /\ workers = <<>>
    /\ queue = <<>>
    /\ progress_calls = <<>>
    /\ clicks = 0

(* One turn of the loop of ProcessorWorker.run: the next file's pipeline,  *)
(* then progress.emit of its TaskResult.                                   *)
WorkerRunFile ==
    /\ ~finished
    /\ done < Len(batch)
    /\ LET f == batch[done + 1]
       IN  \E guess \in GuessOutcomes(IF exists(fs, PathOf(f)) THEN fs[PathOf(f)].data
                                       ELSE <<>>),
              writable \in BOOLEAN :
              \E r \in {run_file(fs, f, OUT_DIR, guess, writable)} :
                  /\ fs' = r.fs
                  /\ results' = Append(results, TaskResult(f, r.dst, r.ok, r.message))
                  /\ resolved' = resolved \o r.resolved
    /\ done' = done + 1
    /\ UNCHANGED <<batch, finished>>
    /\ UNCHANGED <<lineVars, txtVars, detVars, docVars, uiVars>>

(* Mutant: finished_all.emit() stands inside the loop, after each file.    *)
WorkerFinished_inside_loop ==
    /\ ~finished
    /\ done >= 1
    /\ finished' = TRUE
    /\ UNCHANGED <<fs, batch, done, results, resolved>>
    /\ UNCHANGED <<lineVars, txtVars, detVars, docVars, uiVars>>

(* The end of ProcessorWorker.run: finished_all.emit().                    *)
WorkerFinished ==
    /\ ~finished
    /\ done = Len(batch)
    /\ finished' = TRUE
    /\ UNCHANGED <<fs, batch, done, results, resolved>>
    /\ UNCHANGED <<lineVars, txtVars, detVars, docVars, uiVars>>

NextBatch == WorkerRunFile \/ WorkerFinished

SpecBatch == InitBatch /\ [][NextBatch]_vars

(* The batches started with an empty output directory and well-formed      *)
(* documents: a file fails by a missing source, an unwritable output or an *)
(* unsupported extension.                                                  *)
InitBatchFair ==
    /\ InitBatch
    /\ DOMAIN fs = AlwaysThere
    /\ fs["src/report.docx"].kind = "docx"

(* The worker's thread keeps running: run() has no step that waits, and    *)
(* the loop of resolve_output_path ends because the directory is finite.   *)
SpecBatchFair == InitBatchFair /\ [][NextBatch]_vars /\ WF_vars(NextBatch)

---------------------------------------------------------------------------
(* SpecClip: the clipboard window. The user edits the input box, presses   *)
(* Ctrl+Z, the process button and the clear button, in any order.          *)

HISTORY_LIMIT == 50

(* The texts the input box is edited to.                                   *)
InputTexts == {<<>>, <<72>>}

(* ClipboardModeWindow.__init__                                            *)
ClipboardModeWindow ==
    [input_history |-> <<>>, history_index |-> -1, input_text |-> <<>>,
     result_text |-> <<>>]

(* Mutant: the oldest entry is never dropped.                              *)
on_input_changed_unbounded(w) ==
    IF w.input_history = <<>> \/ Last(w.input_history) # w.input_text
    THEN [w EXCEPT !.input_history = Append(@, w.input_text),
                   !.history_index = Len(w.input_history)]
    ELSE w

(* The slot of input_text.textChanged; w.input_text is toPlainText().      *)
on_input_changed(w) ==
    IF w.input_history = <<>> \/ Last(w.input_history) # w.input_text
    THEN LET appended == Append(w.input_history, w.input_text)
             kept == IF Len(appended) > HISTORY_LIMIT THEN Tail(appended) ELSE appended
         IN  [w EXCEPT !.input_history = kept, !.history_index = Len(kept) - 1]
    ELSE w

(* Python's input_history[history_index] is input_history[history_index+1] *)
(* here. setPlainText runs with textChanged disconnected.                  *)
custom_undo(w) ==
    IF Len(w.input_history) > 1 /\ w.history_index > 0
    THEN [w EXCEPT !.history_index = @ - 1,
                   !.input_text = w.input_history[w.history_index]]
    ELSE w

process_text(w) ==
    IF strip(w.input_text) = <<>> THEN w
    ELSE [w EXCEPT !.result_text = process_text_lines(w.input_text)]

(* input_text.clear() emits textChanged, whose slot runs before the reset. *)
clear_input(w) ==
    LET cleared == on_input_changed([w EXCEPT !.input_text = <<>>])
    IN  [cleared EXCEPT !.result_text = <<>>,
                        !.input_history = << <<>> >>,
                        !.history_index = 0]

InitClip ==
    /\ clip = ClipboardModeWindow
    /\ hist = <<>>
    /\ via = <<>>
    /\ files = <<>>
    /\ tags = <<>>
    /\ fs = <<>>
    /\ batch = <<>>
    /\ done = 0
    /\ results = <<>>
    /\ finished = FALSE
    /\ resolved = <<>>
    /\ buffer = <<>>
    /\ detection = <<>>
    /\ docs = <<>>
    /\ settings_file = <<>>
    /\ dirs = {}
    /\ loaded = <<>>
    /\ app = <<>>
    /\ workers = <<>>
    /\ queue = <<>>
    /\ progress_calls = <<>>
    /\ clicks = 0

(* The user types, pastes or deletes: the box shows t and textChanged is   *)
(* emitted.                                                                *)
EditInput ==
    /\ \E t \in InputTexts : clip' = on_input_changed([clip EXCEPT !.input_text = t])
    /\ UNCHANGED <<lineVars, txtVars, batchVars, detVars, docVars, diskVars, setVars, appVars>>

CustomUndo ==
    /\ clip' = custom_undo(clip)
    /\ UNCHANGED <<lineVars, txtVars, batchVars, detVars, docVars, diskVars, setVars, appVars>>

ProcessText ==
    /\ clip' = process_text(clip)
    /\ UNCHANGED <<lineVars, txtVars, batchVars, detVars, docVars, diskVars, setVars, appVars>>

ClearInput ==
    /\ clip' = clear_input(clip)
    /\ UNCHANGED <<lineVars, txtVars, batchVars, detVars, docVars, diskVars, setVars, appVars>>

NextClip == EditInput \/ CustomUndo \/ ProcessText \/ ClearInput

SpecClip == InitClip /\ [][NextClip]_vars

---------------------------------------------------------------------------
(* SpecSettings: load_settings on any content of the settings file.        *)
(*                                                                         *)
(* A JSON value is a null, a number, a string, a list or an object; an     *)
(* object is a function from its keys to values.                           *)

JNull == [type |-> "null", str |-> "", num |-> 0]
JNum(n) == [type |-> "number", str |-> "", num |-> n]
JStr(s) == [type |-> "string", str |-> s, num |-> 0]
JList(n) == [type |-> "list", str |-> "", num |-> n]

(* bool(value), as "not output_path" takes it.                             *)
truthy(v) ==
    CASE v.type = "null" -> FALSE
      [] v.type = "number" -> v.num # 0
      [] v.type = "string" -> v.str # ""
      [] v.type = "list" -> v.num # 0

(* dict.get(key, default)                                                  *)
get(d, key, default) == IF key \in DOMAIN d THEN d[key] ELSE default

(* d[key] = value                                                          *)
set_item(d, key, value) ==
    [k \in DOMAIN d \cup {key} |-> IF k = key THEN value ELSE d[k]]

PATH_BEHAVIORS == {"clear_on_exit", "fixed_path", "clear_after_conversion"}

default_settings ==
    [k \in {"output_path", "path_behavior"} |->
        IF k = "output_path" THEN JStr("") ELSE JStr("clear_on_exit")]

Missing == [kind |-> "missing", type |-> "", items |-> <<>>]
Unreadable == [kind |-> "unreadable", type |-> "", items |-> <<>>]
NotJson == [kind |-> "not json", type |-> "", items |-> <<>>]
JsonObject(d) == [kind |-> "json", type |-> "dict", items |-> d]
JsonOther(type) == [kind |-> "json", type |-> type, items |-> <<>>]

(* Mutant: fixed_path is accepted without looking at output_path.          *)
load_settings_unvalidated_path(file, existing) ==
    IF file.kind # "json" \/ file.type # "dict" THEN default_settings
    ELSE LET given == file.items
             behavior == get(given, "path_behavior", JNull)
         IN  IF ~(behavior.type = "string" /\ behavior.str \in PATH_BEHAVIORS)
             THEN set_item(given, "path_behavior", JStr("clear_on_exit"))
             ELSE given

(* load_settings: a missing file gives the defaults; a file that cannot be *)
(* opened or parsed raises inside the try, and so do .get on a value that  *)
(* is no object and Path() of a value that is no string.                   *)
load_settings(file, existing) ==
    IF file.kind # "json" \/ file.type # "dict" THEN default_settings
    ELSE LET given == file.items
             behavior == get(given, "path_behavior", JNull)
             settings ==
                 IF ~(behavior.type = "string" /\ behavior.str \in PATH_BEHAVIORS)
                 THEN set_item(given, "path_behavior", JStr("clear_on_exit"))
                 ELSE given
             output_path == get(settings, "output_path", JStr(""))
             downgraded ==
                 set_item(set_item(settings, "output_path", JStr("")),
                          "path_behavior", JStr("clear_on_exit"))
         IN  IF settings["path_behavior"] # JStr("fixed_path") THEN settings
             ELSE IF ~truthy(output_path) THEN downgraded
             ELSE IF output_path.type # "string" THEN default_settings
             ELSE IF output_path.str \notin existing THEN downgraded
             ELSE settings

(* The directories a settings file may name.                               *)
OUT_PATHS == {"C:/out", "C:/gone"}

(* The values found under "path_behavior" and under "output_path".         *)
BehaviorValues ==
    {JStr(b) : b \in PATH_BEHAVIORS} \cup {JStr("Fixed_Path"), JStr(""), JNull, JNum(1)}

PathValues ==
    {JStr(p) : p \in OUT_PATHS} \cup {JStr(""), JNull, JNum(0), JNum(5), JList(0), JList(1)}

SettingsKeys == {"output_path", "path_behavior", "language"}

SettingsObjects ==
    UNION {{d \in [keys -> BehaviorValues \cup PathValues] :
               /\ "path_behavior" \in keys => d["path_behavior"] \in BehaviorValues
               /\ "output_path" \in keys => d["output_path"] \in PathValues
               /\ "language" \in keys => d["language"] = JStr("")} :
           keys \in SUBSET SettingsKeys}

SettingsFiles ==
    {Missing, Unreadable, NotJson}
        \cup {JsonOther(type) : type \in {"null", "number", "string", "list"}}
        \cup {JsonObject(d) : d \in SettingsObjects}

InitSettings ==
    /\ settings_file \in SettingsFiles
    /\ dirs \in SUBSET OUT_PATHS
    /\ loaded = <<>>
    /\ clip = <<>>
    /\ hist = <<>>
    /\ via = <<>>
    /\ files = <<>>
    /\ tags = <<>>
    /\ fs = <<>>
    /\ batch = <<>>
    /\ done = 0
    /\ results = <<>>
    /\ finished = FALSE
    /\ resolved = <<>>
    /\ buffer = <<>>
    /\ detection = <<>>
    /\ docs = <<>>
    /\ app = <<>>
    /\ workers = <<>>
    /\ queue = <<>>
    /\ progress_calls = <<>>
    /\ clicks = 0

(* self.settings = load_settings()                                         *)
LoadSettings ==
    /\ loaded = <<>>
    /\ loaded' = <<load_settings(settings_file, dirs)>>
    /\ UNCHANGED <<lineVars, txtVars, batchVars, detVars, docVars, clipVars, diskVars, appVars>>

NextSettings == LoadSettings

SpecSettings == InitSettings /\ [][NextSettings]_vars

---------------------------------------------------------------------------
(* SpecApp: the main window (class IndentorApp of Full_Width_Formatter.py) *)
(* with its worker threads. The user picks files, clears the list, picks   *)
(* the output folder, selects a path behaviour, presses Start, closes the  *)
(* application and starts it again, in any order and at any time; the      *)
(* worker threads run beside the GUI thread, and the signals they emit are *)
(* delivered to the GUI thread in the order they were posted.              *)
(*                                                                         *)
(* A list object is shared by reference: aliased tells for each worker     *)
(* whether its files is still the object that self.files names.            *)

MaxClicks == 5
MaxFiles == 2
MaxWorkers == 2

(* What the folder dialog returns.                                         *)
OUT_FOLDER == "C:/out"

(* What the file dialog returns.                                           *)
Selections == {<<"a.txt">>, <<"a.txt", "b.docx">>}

(* update_file_summary: up to three names and the count of the others.     *)
file_summary(list) ==
    [names |-> SubSeq(list, 1, Min({3, Len(list)})), more |-> Max({Len(list) - 3, 0})]

(* IndentorApp.__init__, _build_ui and _load_settings.                     *)
IndentorApp(settings) ==
    [open |-> TRUE,
     files |-> <<>>,
     out_dir |-> NONE,
     worker |-> 0,
     converted_outputs |-> <<>>,
     settings |-> settings,
     out_edit |-> get(settings, "output_path", JStr("")).str,
     path_behavior |->
         IF get(settings, "path_behavior", JStr("clear_on_exit")).str
                \in {"fixed_path", "clear_after_conversion"}
         THEN settings["path_behavior"].str
         ELSE "clear_on_exit",
     chk_clear_list |-> TRUE,
     sel_summary |-> file_summary(<<>>),
     progress_bar |-> 0,
     lbl_processing |-> "",
     lbl_done |-> "",
     lbl_err |-> ""]

(* The application is not running.                                         *)
Closed == [IndentorApp(default_settings) EXCEPT !.open = FALSE]

(* ProcessorWorker.__init__; given and attempted record the list as it was *)
(* handed over and the files the loop has taken.                           *)
ProcessorWorker(list, out_dir) ==
    [files |-> list, aliased |-> TRUE, out_dir |-> out_dir, successful_outputs |-> <<>>,
     errors |-> <<>>, next |-> 0, current |-> NONE, running |-> TRUE,
     given |-> list, attempted |-> <<>>]

(* self.files = [...]: a new list object, which no worker holds.           *)
Rebound(ws) == [w \in 1..Len(ws) |-> [ws[w] EXCEPT !.aliased = FALSE]]

(* self.files.extend(more): the workers that hold the object see it grow.  *)
Extended(ws, more) ==
    [w \in 1..Len(ws) |-> IF ws[w].aliased THEN [ws[w] EXCEPT !.files = @ \o more]
                          ELSE ws[w]]

InitApp ==
    /\ settings_file = Missing
    /\ dirs = {}
    /\ app = IndentorApp(load_settings(settings_file, dirs))
    /\ workers = <<>>
    /\ queue = <<>>
    /\ progress_calls = <<>>
    /\ clicks = 0
    /\ loaded = <<>>
    /\ clip = <<>>
    /\ hist = <<>>
    /\ via = <<>>
    /\ files = <<>>
    /\ tags = <<>>
    /\ fs = <<>>
    /\ batch = <<>>
    /\ done = 0
    /\ results = <<>>
    /\ finished = FALSE
    /\ resolved = <<>>
    /\ buffer = <<>>
    /\ detection = <<>>
    /\ docs = <<>>

(* What every user action does besides its handler.                        *)
Click ==
    /\ app.open
    /\ clicks < MaxClicks
    /\ clicks' = clicks + 1
    /\ UNCHANGED <<lineVars, txtVars, batchVars, detVars, docVars, clipVars, setVars>>

(* pick_files, the dialog closed with a selection.                         *)
PickFiles ==
    /\ Click
    /\ \E selected \in Selections :
          LET list == IF app.chk_clear_list THEN selected ELSE app.files \o selected
          IN  /\ Len(list) <= MaxFiles
              /\ app' = [app EXCEPT !.files = list, !.sel_summary = file_summary(list)]
              /\ workers' = IF app.chk_clear_list THEN Rebound(workers)
                            ELSE Extended(workers, selected)
    /\ UNCHANGED <<queue, progress_calls, diskVars>>

ClearFiles ==
    /\ Click
    /\ app' = [app EXCEPT !.files = <<>>, !.sel_summary = file_summary(<<>>)]
    /\ workers' = Rebound(workers)
    /\ UNCHANGED <<queue, progress_calls, diskVars>>

(* The user checks or unchecks "clear list".                               *)
ToggleClearList ==
    /\ Click
    /\ app' = [app EXCEPT !.chk_clear_list = ~@]
    /\ UNCHANGED <<workers, queue, progress_calls, diskVars>>

(* The user selects one of the three radio buttons.                        *)
SelectPathBehavior ==
    /\ Click
    /\ \E b \in PATH_BEHAVIORS : app' = [app EXCEPT !.path_behavior = b]
    /\ UNCHANGED <<workers, queue, progress_calls, diskVars>>

(* pick_out_dir, the dialog accepted.                                      *)
PickOutDir ==
    /\ Click
    /\ app' = [app EXCEPT !.out_dir = OUT_FOLDER, !.out_edit = OUT_FOLDER]
    /\ UNCHANGED <<workers, queue, progress_calls, diskVars>>

(* The settings start_processing writes: the folder and the radio button.  *)
settings_to_save(a, out_dir) ==
    set_item(set_item(a.settings, "output_path", JStr(out_dir)),
             "path_behavior", JStr(a.path_behavior))

(* The labels and the bar as start_processing resets them.                 *)
reset_for_batch(a) ==
    [a EXCEPT !.converted_outputs = <<>>,
              !.lbl_processing = "processing",
              !.lbl_done = "done",
              !.lbl_err = "error",
              !.progress_bar = 0]

(* start_processing. made: mkdir of a missing folder succeeded; writable:  *)
(* os.access(out_dir, W_OK); saved: save_settings wrote the file (it fails *)
(* silently); log_stop: logging is on, the logger could not be set up and  *)
(* the user answered No.                                                   *)
StartProcessing ==
    /\ Click
    /\ Len(workers) < MaxWorkers
    /\ \E made, writable, saved, log_stop \in BOOLEAN :
          LET out_dir == app.out_edit
              with_dir == [app EXCEPT !.out_dir = out_dir]
              settings == settings_to_save(app, out_dir)
          IN  IF app.files = <<>> \/ out_dir = ""
              THEN UNCHANGED <<app, workers, settings_file, dirs>>
              ELSE IF out_dir \notin dirs /\ ~made
              THEN app' = with_dir /\ UNCHANGED <<workers, settings_file, dirs>>
              ELSE /\ dirs' = dirs \cup {out_dir}
                   /\ IF ~writable
                      THEN app' = with_dir /\ UNCHANGED <<workers, settings_file>>
                      ELSE /\ settings_file' = IF saved THEN JsonObject(settings)
                                               ELSE settings_file
                           /\ IF log_stop
                              THEN /\ app' = [with_dir EXCEPT !.settings = settings]
                                   /\ UNCHANGED workers
                              ELSE /\ app' = [reset_for_batch(with_dir) EXCEPT
                                                 !.settings = settings,
                                                 !.worker = Len(workers) + 1]
                                   /\ workers' =
                                          Append(workers, ProcessorWorker(app.files, out_dir))
    /\ UNCHANGED <<queue, progress_calls>>

(* The window is closed and the process ends, with its threads.            *)
AppExit ==
    /\ Click
    /\ app' = Closed
    /\ workers' = <<>>
    /\ queue' = <<>>
    /\ progress_calls' = <<>>
    /\ UNCHANGED diskVars

(* main(): the application is started again.                               *)
AppLaunch ==
    /\ ~app.open
    /\ clicks < MaxClicks
    /\ clicks' = clicks + 1
    /\ app' = IndentorApp(load_settings(settings_file, dirs))
    /\ UNCHANGED <<workers, queue, progress_calls, diskVars>>
    /\ UNCHANGED <<lineVars, txtVars, batchVars, detVars, docVars, clipVars, setVars>>

(* What a signal posted to the GUI thread carries.                         *)
Posted(signal, w, result) == [signal |-> signal, worker |-> w, result |-> result]

NO_RESULT == TaskResult(NONE, NONE, FALSE, "")

(* ProcessorWorker.run, the for loop takes the next file of the list and   *)
(* its pipeline begins.                                                    *)
ThreadTakesFile ==
    /\ \E w \in 1..Len(workers) :
          /\ workers[w].running
          /\ workers[w].current = NONE
          /\ workers[w].next < Len(workers[w].files)
          /\ workers' = [workers EXCEPT ![w].current = workers[w].files[workers[w].next + 1],
                                        ![w].next = @ + 1,
                                        ![w].attempted =
                                            Append(@, workers[w].files[workers[w].next + 1])]
    /\ UNCHANGED <<app, queue, progress_calls, clicks, diskVars>>
    /\ UNCHANGED <<lineVars, txtVars, batchVars, detVars, docVars, clipVars, setVars>>

(* ProcessorWorker.run, the pipeline of the file returns or raises and the *)
(* result is emitted.                                                      *)
ThreadFileDone ==
    /\ \E w \in 1..Len(workers), ok \in BOOLEAN :
          LET f == workers[w].current
              dst == [dir |-> workers[w].out_dir, name |-> f]
          IN  /\ workers[w].running
              /\ f # NONE
              /\ IF ok
                 THEN /\ workers' = [workers EXCEPT ![w].current = NONE,
                                                   ![w].successful_outputs = Append(@, dst)]
                      /\ queue' = Append(queue, Posted("progress", w,
                                                       TaskResult(f, dst, TRUE, "Done")))
                 ELSE /\ workers' = [workers EXCEPT ![w].current = NONE,
                                                   ![w].errors = Append(@, f)]
                      /\ queue' = Append(queue, Posted("progress", w,
                                                       TaskResult(f, NONE, FALSE, "failed")))
    /\ UNCHANGED <<app, progress_calls, clicks, diskVars>>
    /\ UNCHANGED <<lineVars, txtVars, batchVars, detVars, docVars, clipVars, setVars>>

(* ProcessorWorker.run, the list is exhausted: finished_all is emitted and *)
(* the thread ends.                                                        *)
ThreadFinishes ==
    /\ \E w \in 1..Len(workers) :
          /\ workers[w].running
          /\ workers[w].current = NONE
          /\ workers[w].next >= Len(workers[w].files)
          /\ workers' = [workers EXCEPT ![w].running = FALSE]
          /\ queue' = Append(queue, Posted("finished_all", w, NO_RESULT))
    /\ UNCHANGED <<app, progress_calls, clicks, diskVars>>
    /\ UNCHANGED <<lineVars, txtVars, batchVars, detVars, docVars, clipVars, setVars>>

(* setValue: a value outside the range of the bar is ignored.              *)
setValue(bar, value) == IF value \in 0..100 THEN value ELSE bar

(* What a call of on_progress did: whose result it handled, whether it     *)
(* raised, the value it asked the bar to show, and the batch it belongs    *)
(* to (self.worker).                                                       *)
ProgressCall(w, batch_of, raised, value) ==
    [worker |-> w, batch |-> batch_of, raised |-> raised, value |-> value]

(* on_progress, the slot of the progress signal. The quotient is a float   *)
(* that setValue truncates; for the list lengths here that is the integer  *)
(* quotient.                                                               *)
OnProgress ==
    /\ queue # <<>>
    /\ Head(queue).signal = "progress"
    /\ queue' = Tail(queue)
    /\ LET result == Head(queue).result
           counted == IF result.ok
                      THEN [app EXCEPT !.converted_outputs = Append(@, result.dst),
                                       !.lbl_done = "done",
                                       !.lbl_processing = @]
                      ELSE [app EXCEPT !.lbl_err = result.message]
           handled == Len(counted.converted_outputs) + Len(workers[app.worker].errors)
       IN  IF app.files = <<>>
           THEN /\ app' = counted
                /\ progress_calls' = Append(progress_calls,
                      ProgressCall(Head(queue).worker, app.worker, TRUE, -1))
           ELSE LET progress == (handled * 100) \div Len(app.files)
                IN  /\ app' = [counted EXCEPT !.progress_bar = setValue(@, progress)]
                    /\ progress_calls' = Append(progress_calls,
                          ProgressCall(Head(queue).worker, app.worker, FALSE, progress))
    /\ UNCHANGED <<workers, clicks, diskVars>>
    /\ UNCHANGED <<lineVars, txtVars, batchVars, detVars, docVars, clipVars, setVars>>

(* on_finished_all, the slot of the finished_all signal.                   *)
OnFinishedAll ==
    /\ queue # <<>>
    /\ Head(queue).signal = "finished_all"
    /\ queue' = Tail(queue)
    /\ app' = IF app.path_behavior = "clear_after_conversion"
              THEN [app EXCEPT !.lbl_processing = "complete", !.progress_bar = 100,
                               !.out_edit = "", !.out_dir = NONE]
              ELSE [app EXCEPT !.lbl_processing = "complete", !.progress_bar = 100]
    /\ UNCHANGED <<workers, progress_calls, clicks, diskVars>>
    /\ UNCHANGED <<lineVars, txtVars, batchVars, detVars, docVars, clipVars, setVars>>

NextApp ==
    \/ PickFiles
    \/ ClearFiles
    \/ ToggleClearList
    \/ SelectPathBehavior
    \/ PickOutDir
    \/ StartProcessing
    \/ AppExit
    \/ AppLaunch
    \/ ThreadTakesFile
    \/ ThreadFileDone
    \/ ThreadFinishes
    \/ OnProgress
    \/ OnFinishedAll

SpecApp == InitApp /\ [][NextApp]_vars

---------------------------------------------------------------------------
(* SpecApp000: the main window of the older revision (class IndentorApp of *)
(* unnamed/part_000), which locks three buttons while a batch runs. A user *)
(* action on a disabled button does not happen.                            *)

(* IndentorApp.__init__ and _build_ui.                                     *)
IndentorApp_000 ==
    [files |-> <<>>,
     worker |-> 0,
     out_edit |-> "",
     chk_multipath |-> FALSE,
     btn_start |-> TRUE,
     btn_pick |-> TRUE,
     btn_out |-> TRUE,
     sel_summary |-> file_summary(<<>>),
     progress_bar |-> 0,
     lbl_processing |-> "",
     lbl_done |-> <<>>,
     lbl_err |-> <<>>,
     completed_names |-> <<>>,
     error_msgs |-> <<>>]

InitApp_000 ==
    /\ settings_file = Missing
    /\ dirs \in SUBSET {OUT_FOLDER}
    /\ app = IndentorApp_000
    /\ workers = <<>>
    /\ queue = <<>>
    /\ progress_calls = <<>>
    /\ clicks = 0
    /\ loaded = <<>>
    /\ clip = <<>>
    /\ hist = <<>>
    /\ via = <<>>
    /\ files = <<>>
    /\ tags = <<>>
    /\ fs = <<>>
    /\ batch = <<>>
    /\ done = 0
    /\ results = <<>>
    /\ finished = FALSE
    /\ resolved = <<>>
    /\ buffer = <<>>
    /\ detection = <<>>
    /\ docs = <<>>

Click_000 ==
    /\ clicks < MaxClicks
    /\ clicks' = clicks + 1
    /\ UNCHANGED <<lineVars, txtVars, batchVars, detVars, docVars, clipVars, setVars>>

(* pick_files, the dialog closed with a selection of .txt and .docx files. *)
PickFiles_000 ==
    /\ app.btn_pick
    /\ Click_000
    /\ \E selected \in Selections :
          LET list == IF app.chk_multipath THEN app.files \o selected ELSE selected
          IN  /\ Len(list) <= MaxFiles
              /\ app' = [app EXCEPT !.files = list, !.sel_summary = file_summary(list)]
              /\ workers' = IF app.chk_multipath THEN Extended(workers, selected)
                            ELSE Rebound(workers)
    /\ UNCHANGED <<queue, progress_calls, diskVars>>

ClearFiles_000 ==
    /\ Click_000
    /\ app' = [app EXCEPT !.files = <<>>, !.sel_summary = file_summary(<<>>)]
    /\ workers' = Rebound(workers)
    /\ UNCHANGED <<queue, progress_calls, diskVars>>

(* The user checks or unchecks the multi-path box.                         *)
ToggleMultipath_000 ==
    /\ Click_000
    /\ app' = [app EXCEPT !.chk_multipath = ~@]
    /\ UNCHANGED <<workers, queue, progress_calls, diskVars>>

(* pick_out_dir, a folder chosen.                                          *)
PickOutDir_000 ==
    /\ app.btn_out
    /\ Click_000
    /\ app' = [app EXCEPT !.out_edit = OUT_FOLDER]
    /\ UNCHANGED <<workers, queue, progress_calls, diskVars>>

(* Mutant: the buttons stay enabled when a batch is launched.              *)
launch_unlocked_000(a, w) ==
    [a EXCEPT !.progress_bar = 0,
              !.lbl_processing = "-",
              !.lbl_done = <<>>,
              !.lbl_err = <<>>,
              !.completed_names = <<>>,
              !.error_msgs = <<>>,
              !.worker = w]

(* start_processing after its checks: the buttons, the bar, the labels and *)
(* the new worker.                                                         *)
launch_000(a, w) ==
    [a EXCEPT !.btn_start = FALSE,
              !.btn_pick = FALSE,
              !.btn_out = FALSE,
              !.progress_bar = 0,
              !.lbl_processing = "-",
              !.lbl_done = <<>>,
              !.lbl_err = <<>>,
              !.completed_names = <<>>,
              !.error_msgs = <<>>,
              !.worker = w]

(* self.worker.terminate() and wait(): the thread ends where it is,        *)
(* nothing more is emitted.                                                *)
terminate(ws, w) ==
    IF w # 0 /\ ws[w].running THEN [ws EXCEPT ![w].running = FALSE, ![w].current = NONE]
    ELSE ws

(* start_processing. writable: os.access(out_path, os.W_OK).               *)
StartProcessing_000 ==
    /\ app.btn_start
    /\ Click_000
    /\ Len(workers) < MaxWorkers
    /\ \E writable \in BOOLEAN :
          IF app.files = <<>> \/ app.out_edit = "" \/ app.out_edit \notin dirs \/ ~writable
          THEN UNCHANGED <<app, workers>>
          ELSE /\ app' = launch_000(app, Len(workers) + 1)
               /\ workers' = Append(terminate(workers, app.worker),
                                    ProcessorWorker(app.files, app.out_edit))
    /\ UNCHANGED <<queue, progress_calls, diskVars>>

(* list.index(value): the first position, counted from 0; -1 stands for    *)
(* the ValueError of a value that is not in the list.                      *)
index(list, value) ==
    IF \E i \in 1..Len(list) : list[i] = value
    THEN Min({i \in 1..Len(list) : list[i] = value}) - 1
    ELSE -1

(* list[-3:]                                                               *)
last3(list) == SubSeq(list, Max({1, Len(list) - 2}), Len(list))

(* What a call of on_progress of this revision did.                        *)
ProgressCall_000(w, result, known, raised, before, after) ==
    [worker |-> w, src |-> result.src, ok |-> result.ok, known |-> known, raised |-> raised,
     bar_before |-> before.progress_bar, value |-> after.progress_bar,
     completed_names |-> after.completed_names, error_msgs |-> after.error_msgs]

(* on_progress. When index raises ValueError the except clause passes and  *)
(* idx is left unbound: the comparison that follows raises                 *)
(* UnboundLocalError and the call ends there. The float quotient is        *)
(* truncated by int(); for the list lengths here that is the integer       *)
(* quotient.                                                               *)
on_progress_000(a, result) ==
    LET idx == index(a.files, result.src)
        pct == ((idx + 1) * 100) \div Max({1, Len(a.files)})
        shown == [a EXCEPT !.progress_bar = setValue(@, pct)]
        named == IF idx < Len(a.files) - 1
                 THEN [shown EXCEPT !.lbl_processing = result.src]
                 ELSE [shown EXCEPT !.lbl_processing = "complete"]
    IN  IF idx < 0 THEN a
        ELSE IF result.ok
        THEN [named EXCEPT !.completed_names = last3(Append(@, result.src)),
                           !.lbl_done = last3(Append(a.completed_names, result.src))]
        ELSE [named EXCEPT !.error_msgs = last3(Append(@, <<result.src, result.message>>)),
                           !.lbl_err = last3(Append(a.error_msgs,
                                                    <<result.src, result.message>>))]

(* Whether on_progress_000 ended by the exception.                         *)
on_progress_raises_000(a, result) == index(a.files, result.src) < 0

OnProgress_000 ==
    /\ queue # <<>>
    /\ Head(queue).signal = "progress"
    /\ queue' = Tail(queue)
    /\ LET result == Head(queue).result
       IN  /\ app' = on_progress_000(app, result)
           /\ progress_calls' = Append(progress_calls,
                 ProgressCall_000(Head(queue).worker, result,
                                  index(app.files, result.src) >= 0,
                                  on_progress_raises_000(app, result), app, app'))
    /\ UNCHANGED <<workers, clicks, diskVars>>
    /\ UNCHANGED <<lineVars, txtVars, batchVars, detVars, docVars, clipVars, setVars>>

(* on_finished_all: the buttons are enabled again and the worker is        *)
(* dropped (deleteLater, self.worker = None).                              *)
OnFinishedAll_000 ==
    /\ queue # <<>>
    /\ Head(queue).signal = "finished_all"
    /\ queue' = Tail(queue)
    /\ app' = [app EXCEPT !.lbl_processing = "all complete",
                          !.btn_start = TRUE,
                          !.btn_pick = TRUE,
                          !.btn_out = TRUE,
                          !.worker = 0]
    /\ UNCHANGED <<workers, progress_calls, clicks, diskVars>>
    /\ UNCHANGED <<lineVars, txtVars, batchVars, detVars, docVars, clipVars, setVars>>

(* The steps of the worker threads, which are those of the current         *)
(* revision without the logging.                                           *)
ThreadSteps == ThreadTakesFile \/ ThreadFileDone \/ ThreadFinishes

(* The event loop of the GUI thread delivers the next posted signal.       *)
Delivery_000 == OnProgress_000 \/ OnFinishedAll_000

NextApp_000 ==
    \/ PickFiles_000
    \/ ClearFiles_000
    \/ ToggleMultipath_000
    \/ PickOutDir_000
    \/ StartProcessing_000
    \/ ThreadSteps
    \/ Delivery_000

SpecApp_000 == InitApp_000 /\ [][NextApp_000]_vars

(* The threads are scheduled and the event loop runs: a worker that can    *)
(* step does, and a posted signal is delivered.                            *)
SpecApp_000_Fair ==
    InitApp_000 /\ [][NextApp_000]_vars /\ WF_vars(ThreadSteps) /\ WF_vars(Delivery_000)

---------------------------------------------------------------------------
(* What the specification says a line is: content ended by "\n", "\r\n",   *)
(* "\r" or the end of the text.                                            *)

TERMINATORS == {LF, CR}

SpecLinesOf(text) == SplitKeepEnds(text, TERMINATORS)

(* C1: applying the line transform to its own output gives the same text:  *)
(* T(T(t)) = T(t), for the clipboard transform and the file transform.     *)
C1_LineIdempotent == Len(hist) >= 3 => hist[3] = hist[2]

C1_Witness ==
    /\ Len(hist) = 3
    /\ hist[2] # hist[1]
    /\ Len(splitlines(hist[1])) >= 2
    /\ via = <<"clipboard", "file">>


(* The rule of the specification for one of its lines.                     *)
SpecLineRule(line) ==
    LET content == core_of(line)
        terminator == eol_of(line)
    IN  IF content = <<>> \/ (\A i \in 1..Len(content) : content[i] \in WHITESPACE)
           \/ startswith(content, FW2)
        THEN line
        ELSE FW2 \o lstrip(content, {SPACE, TAB}) \o terminator

SpecTransform(text) ==
    LET lines == SpecLinesOf(text)
    IN  join([i \in 1..Len(lines) |-> SpecLineRule(lines[i])])

(* C2: with lines ended by exactly "\n", "\r\n", "\r" or the end of the    *)
(* text, each output line is the input line when its content is empty,     *)
(* all-whitespace or starts with two markers, and otherwise two markers +  *)
(* the content without its leading spaces/tabs + the terminator; a marker  *)
(* is inserted nowhere else.                                               *)
C2_PerLineRule == Len(hist) >= 2 => hist[2] = SpecTransform(hist[1])

(* The same rule over the lines str.splitlines() makes.                    *)
C2_PerSplitlinesRule ==
    Len(hist) >= 2 =>
        LET lines == splitlines(hist[1])
        IN  hist[2] = join([i \in 1..Len(lines) |-> SpecLineRule(lines[i])])

(* C3: the output has as many lines as the input, and its i-th line ends   *)
(* with the terminator (none, "\n", "\r\n", "\r") of the i-th input line.  *)
C3_LinesAndTerminatorsKept ==
    Len(hist) >= 2 =>
        LET before == SpecLinesOf(hist[1])
            after == SpecLinesOf(hist[2])
        IN  /\ Len(after) = Len(before)
            /\ \A i \in 1..Len(before) : eol_of(after[i]) = eol_of(before[i])

C3_Witness ==
    /\ Len(hist) >= 2
    /\ hist[2] # hist[1]
    /\ LET before == SpecLinesOf(hist[1])
       IN  /\ Len(before) >= 2
           /\ eol_of(before[1]) = <<CR, LF>>
           /\ eol_of(before[2]) = <<>>
           /\ core_of(before[1]) # <<>>
           /\ strip(core_of(before[1])) # <<>>

IsBlankContent(content) == \A i \in 1..Len(content) : content[i] \in {SPACE, TAB}

(* On the decoded text the transform receives, a line that is empty or     *)
(* only spaces and tabs is copied unchanged, at every index.               *)
BlankLinesUntouchedInText ==
    Len(hist) >= 2 =>
        LET before == SpecLinesOf(hist[1])
            after == SpecLinesOf(hist[2])
        IN  \A i \in 1..Len(before) :
                IsBlankContent(core_of(before[i])) =>
                    /\ i <= Len(after)
                    /\ after[i] = before[i]

(* The text of a file read with the codec enc, the byte order mark at its  *)
(* start not being part of the text.                                       *)
FileText(data, enc) ==
    LET t == decode(data, enc)
    IN  IF enc \in {"utf-16-le", "utf-16-be"} /\ startswith(t, <<BOM_CHAR>>)
        THEN Tail(t)
        ELSE t

(* C4: a line whose content is empty or only spaces and tabs is copied to  *)
(* the output unchanged and gets no marker, wherever it stands in the      *)
(* text, the first line of a file included.                                *)
C4_BlankLinesUntouched ==
    Len(files) >= 2 =>
        LET before == SpecLinesOf(FileText(files[1], tags[1]))
            after == SpecLinesOf(FileText(files[2], tags[1]))
        IN  \A i \in 1..Len(before) :
                IsBlankContent(core_of(before[i])) =>
                    /\ i <= Len(after)
                    /\ after[i] = before[i]

(* C5: the pipeline run on the UTF-8 file without BOM that holds           *)
(* "Hello\r\n\r\nWorld\n" writes "\u3000\u3000Hello\r\n\r\n\u3000\u3000World\n",        *)
(* whatever encoding the detector returns for those bytes.                 *)
C5_HelloWorldScenario ==
    (Len(files) >= 2 /\ files[1] = utf8_encode(HELLO_WORLD)) =>
        files[2] = utf8_encode(HELLO_WORLD_INDENTED)

(* C6: processing the output file of the pipeline again writes a file      *)
(* byte-identical to that output.                                          *)
C6_PipelineIdempotent == Len(files) >= 3 => files[3] = files[2]

(* The text of a UTF-16 little-endian file that starts with a BOM.         *)
Utf16LeBomText(data) == utf16_decode(Drop(data, 2), TRUE)

IsUtf16LeBomFile(data) ==
    startswith(data, BOM_UTF16_LE) /\ ~startswith(data, BOM_UTF32_LE)

(* Two markers before each line that is not blank, blank lines as they are. *)
MarkedText(text) == SpecTransform(text)

(* C7: the output for a UTF-16 little-endian file that starts with a BOM   *)
(* starts with that BOM, and decodes to the original content with two      *)
(* markers before each non-blank line.                                     *)
C7_Utf16RoundTrip ==
    (Len(files) >= 2 /\ IsUtf16LeBomFile(files[1])) =>
        /\ IsUtf16LeBomFile(files[2])
        /\ Utf16LeBomText(files[2]) = MarkedText(Utf16LeBomText(files[1]))

(* The k-th name the specification's sequence tries for name.ext: name.ext, *)
(* name_indent.ext, name_indent1.ext, name_indent2.ext, ...                *)
CandidateName(stem, suffix, k) ==
    IF k = 0 THEN stem \o suffix
    ELSE IF k = 1 THEN stem \o "_indent" \o suffix
    ELSE stem \o "_indent" \o ToString(k - 1) \o suffix

REPORT_FAMILY == {"out/report.txt", "out/report_indent.txt", "out/report_indent1.txt"}

C9_DistinctDestinations ==
    \A i, j \in 1..Len(results) :
        (i < j /\ results[i].ok /\ results[j].ok) => results[i].dst # results[j].dst

C9_Witness ==
    /\ Len(results) >= 2
    /\ results[1].ok
    /\ results[2].ok
    /\ NameOf(results[1].src) = NameOf(results[2].src)
    /\ results[1].src # results[2].src
    /\ results[2].dst = "out/report_indent1.txt"

(* C10: no step of the batch overwrites, modifies or removes a file that   *)
(* existed before the step: not a source, not a file already in the output *)
(* directory, not an output written earlier, also when the source lies in  *)
(* the output directory.                                                   *)
C10_ExistingFilesKept ==
    [][\A q \in DOMAIN fs : q \in DOMAIN fs' /\ fs'[q] = fs[q]]_vars

C10_Witness ==
    \E i \in 1..Len(results) :
        /\ results[i].ok
        /\ results[i].src.dir = OUT_DIR
        /\ results[i].dst # PathOf(results[i].src)
        /\ exists(fs, results[i].dst)
        /\ i > 1
        /\ results[i - 1].ok

(* The tag the specification's priority list gives for a buffer, label     *)
(* being the guesser's answer: "" when it gave none or raised.             *)
HasPrefix(bytes, mark) ==
    Len(bytes) >= Len(mark) /\ \A i \in 1..Len(mark) : bytes[i] = mark[i]

PriorityTag(bytes, label) ==
    CASE HasPrefix(bytes, <<239, 187, 191>>) -> "utf-8-sig"
      [] ~HasPrefix(bytes, <<239, 187, 191>>)
           /\ (HasPrefix(bytes, <<255, 254, 0, 0>>) \/ HasPrefix(bytes, <<0, 0, 254, 255>>))
           -> "utf-32"
      [] HasPrefix(bytes, <<255, 254>>) /\ ~HasPrefix(bytes, <<255, 254, 0, 0>>)
           -> "utf-16-le"
      [] HasPrefix(bytes, <<254, 255>>) -> "utf-16-be"
      [] OTHER -> IF label # "" THEN label ELSE "utf-8"

(* C11: detect_encoding returns, in strict priority, "utf-8-sig" for a      *)
(* buffer that starts with EF BB BF; else "utf-32" for FF FE 00 00 or       *)
(* 00 00 FE FF, never a UTF-16 tag; else "utf-16-le" for FF FE; else        *)
(* "utf-16-be" for FE FF; else the guesser's label when it returns a match  *)
(* with a non-empty label; else "utf-8"; and when the guesser raises, the   *)
(* result is "utf-8" (or the tag of the byte order mark), for every buffer, *)
(* the empty one included.                                                 *)
C11_DetectorPriority ==
    \A i \in 1..Len(detection) :
        LET guess == detection[i].guess
            label == IF guess.kind = "match" THEN guess.encoding ELSE ""
        IN  /\ detection[i].encoding = PriorityTag(buffer, label)
            /\ (guess.kind = "raise" /\ PriorityTag(buffer, "") = "utf-8")
                   => detection[i].encoding = "utf-8"
            /\ (buffer = <<>> /\ label = "") => detection[i].encoding = "utf-8"

C11_Witness ==
    /\ Len(detection) = 1
    /\ HasPrefix(buffer, <<255, 254, 0, 0>>)
    /\ detection[1].encoding = "utf-32"

(* The places of the paragraphs of a document: <<0, 0, i>> for the i-th    *)
(* paragraph of the body, <<t, c, i>> for the i-th paragraph of cell c of  *)
(* table t.                                                                *)
Places(doc) ==
    {<<0, 0, i>> : i \in 1..Len(doc.body)} \cup
    UNION {UNION {{<<t, c, i>> : i \in 1..Len(doc.tables[t].cells[c])} :
                     c \in 1..Len(doc.tables[t].cells)} :
              t \in 1..Len(doc.tables)}

ParagraphAt(doc, place) ==
    IF place[1] = 0 THEN doc.body[place[3]]
    ELSE doc.tables[place[1]].cells[place[2]][place[3]]

(* A paragraph's text: its run texts one after the other.                  *)
TextOf(p) == join(p.runs)

AllWhitespace(text) == \A i \in 1..Len(text) : text[i] \in WHITESPACE

(* The style name contains a keyword of the heading set as a substring.    *)
HeadingStyled(p) ==
    /\ p.style.kind = "name"
    /\ \E k \in HEADING_KEYWORDS :
          \E i \in 1..Len(p.style.name) :
             /\ i + Len(k) - 1 <= Len(p.style.name)
             /\ \A j \in 1..Len(k) : p.style.name[i + j - 1] = k[j]

(* The text segments of a run: what stands between its soft line breaks.   *)
Segments(text) == split_lf(text)

(* C12: running the mutator over the document it has already mutated      *)
(* changes no run text and no paragraph text: the document saved by the    *)
(* second run equals the one saved by the first.                           *)
C12_DocumentIdempotent == Len(docs) >= 3 => docs[3] = docs[2]

C12_Witness ==
    /\ Len(docs) = 3
    /\ docs[2].body # docs[1].body
    /\ docs[2].tables # docs[1].tables
    /\ Len(docs[1].body[1].runs) = 2
    /\ \E i \in 1..2 : \E j \in 1..Len(docs[1].body[1].runs[i]) :
          docs[1].body[1].runs[i][j] = LF

(* C13: a paragraph whose style name contains a heading keyword as a       *)
(* substring is left as it is, no run text changed and no run added,       *)
(* whatever its text and runs are.                                         *)
C13_HeadingsUnchanged ==
    Len(docs) >= 2 =>
        /\ Places(docs[2]) = Places(docs[1])
        /\ \A place \in Places(docs[1]) :
              HeadingStyled(ParagraphAt(docs[1], place))
                  => ParagraphAt(docs[2], place) = ParagraphAt(docs[1], place)

C13_Witness ==
    /\ Len(docs) >= 2
    /\ docs[1].body[1].style = STYLE_BIAOTI_2
    /\ docs[1].body[1].runs = <<<<SPACE, 72>>, <<LF, 72>>>>
    /\ docs[2].body[1] = docs[1].body[1]

(* C14: a paragraph whose text is empty or all-whitespace is left as it    *)
(* is, with or without list numbering and however many runs it has.        *)
C14_EmptyParagraphsUnchanged ==
    Len(docs) >= 2 =>
        /\ Places(docs[2]) = Places(docs[1])
        /\ \A place \in Places(docs[1]) :
              AllWhitespace(TextOf(ParagraphAt(docs[1], place)))
                  => ParagraphAt(docs[2], place) = ParagraphAt(docs[1], place)

C14_Witness ==
    /\ Len(docs) >= 2
    /\ docs[1].body[1].numbered
    /\ ~HeadingStyled(docs[1].body[1])
    /\ docs[1].body[1].runs = <<<<SPACE>>, <<LF, FULL_WIDTH_SPACE>>>>
    /\ docs[2].body[1] = docs[1].body[1]

(* C15: when the mutator changes a paragraph that has a run, the number    *)
(* and order of its runs stay; the first run's text gets the two markers   *)
(* in place of its leading spaces and tabs; in every run only the text     *)
(* segments after a soft line break of that run may change besides; a run  *)
(* that is not the first and has no soft line break keeps its text.        *)
C15_MinimalMutation ==
    Len(docs) >= 2 =>
        \A place \in Places(docs[1]) :
            LET q == ParagraphAt(docs[1], place)
                r == ParagraphAt(docs[2], place)
            IN  (q.runs # <<>> /\ r # q) =>
                    /\ Len(r.runs) = Len(q.runs)
                    /\ r.style = q.style
                    /\ r.numbered = q.numbered
                    /\ \A i \in 1..Len(q.runs) :
                          LET a == Segments(q.runs[i])
                              b == Segments(r.runs[i])
                          IN  /\ Len(b) = Len(a)
                              /\ b[1] = IF i = 1 THEN FW2 \o lstrip(a[1], {SPACE, TAB})
                                        ELSE a[1]
                              /\ (i > 1 /\ Len(a) = 1) => r.runs[i] = q.runs[i]

C15_Witness ==
    /\ Len(docs) >= 2
    /\ docs[1].body[1].runs = <<<<SPACE, 72>>, <<LF, 72>>>>
    /\ docs[2].body[1].runs = <<FW2 \o <<72>>, <<LF>> \o FW2 \o <<72>>>>

(* C16: after the mutator has run on a paragraph that is no heading and    *)
(* whose text is not all-whitespace, every non-empty text segment after a  *)
(* soft line break inside a run starts with the two markers.               *)
C16_SoftBreakSegmentsMarked ==
    Len(docs) >= 2 =>
        \A place \in Places(docs[1]) :
            LET q == ParagraphAt(docs[1], place)
                r == ParagraphAt(docs[2], place)
            IN  (~HeadingStyled(q) /\ ~AllWhitespace(TextOf(q))) =>
                    \A i \in 1..Len(r.runs) :
                        \A j \in 2..Len(Segments(r.runs[i])) :
                            Segments(r.runs[i])[j] # <<>>
                                => startswith(Segments(r.runs[i])[j], FW2)

(* The same for the paragraphs whose text does not start with the two      *)
(* markers before the run.                                                 *)
SoftBreakSegmentsMarkedUnlessPrefixed ==
    Len(docs) >= 2 =>
        \A place \in Places(docs[1]) :
            LET q == ParagraphAt(docs[1], place)
                r == ParagraphAt(docs[2], place)
            IN  (~HeadingStyled(q) /\ ~AllWhitespace(TextOf(q))
                    /\ ~startswith(TextOf(q), FW2)) =>
                    \A i \in 1..Len(r.runs) :
                        \A j \in 2..Len(Segments(r.runs[i])) :
                            Segments(r.runs[i])[j] # <<>>
                                => startswith(Segments(r.runs[i])[j], FW2)

(* C17: after the pipeline has gone through a document, every paragraph    *)
(* of the body and of every cell of every table that is no heading and has *)
(* text that is not all-whitespace has text that starts with the two       *)
(* markers, and the markers were put at the start of a paragraph at most   *)
(* once, also in a cell that stands at several places of its table.        *)
C17_TraversalMarksOnce ==
    Len(docs) >= 2 =>
        /\ Places(docs[2]) = Places(docs[1])
        /\ \A place \in Places(docs[1]) :
              LET q == ParagraphAt(docs[1], place)
                  r == ParagraphAt(docs[2], place)
              IN  /\ (~HeadingStyled(q) /\ ~AllWhitespace(TextOf(q)))
                         => startswith(TextOf(r), FW2)
                  /\ Len(r.runs) = Len(q.runs)
                  /\ q.runs # <<>> =>
                         Segments(r.runs[1])[1] \in
                             {Segments(q.runs[1])[1],
                              FW2 \o lstrip(Segments(q.runs[1])[1], {SPACE, TAB})}

C17_Witness ==
    /\ Len(docs) >= 2
    /\ Len(docs[1].tables[1].rows) = 2
    /\ docs[1].tables[1].rows[1][1] = docs[1].tables[1].rows[1][2]
    /\ ParagraphAt(docs[1], <<1, 1, 1>>).runs = <<<<SPACE, 72>>>>
    /\ ParagraphAt(docs[2], <<1, 1, 1>>).runs = <<FW2 \o <<72>>>>
    /\ docs[2].body[1].runs = <<FW2 \o <<72>>>>

(* C18: the worker emits one TaskResult per file of the batch, in list     *)
(* order; a success carries the destination path, a failure carries        *)
(* dst = None and the error message; a failure does not keep the later     *)
(* files from being attempted, and no file is attempted twice.             *)
C18_OneResultPerFile ==
    /\ done <= Len(batch)
    /\ Len(results) = done
    /\ finished => Len(results) = Len(batch)
    /\ \A i \in 1..Len(results) :
          /\ results[i].src = batch[i]
          /\ results[i].ok =>
                 /\ results[i].dst # NONE
                 /\ exists(fs, results[i].dst)
          /\ ~results[i].ok =>
                 /\ results[i].dst = NONE
                 /\ results[i].message \in
                        {"No such file or directory", "Package not found",
                         "Permission denied", "Unsupported extension"}

C18_Witness ==
    /\ finished
    /\ Len(batch) = 2
    /\ ~results[1].ok
    /\ results[1].message = "Permission denied"
    /\ results[2].ok
    /\ results[2].src = results[1].src

(* C19: finished_all is emitted in the end, once, after the result of      *)
(* every file of the batch has been emitted, and no result is emitted      *)
(* after it.                                                               *)
C19_FinishedAfterAllResults ==
    /\ <>finished
    /\ [](finished => Len(results) = Len(batch))
    /\ [][finished => (finished' /\ results' = results)]_vars

C19_Witness ==
    /\ finished
    /\ Len(batch) = 2
    /\ Len(results) = 2
    /\ ~results[2].ok

IsTxtSuffix(suffix) == suffix \in {".txt", ".TXT"}

IsDocxSuffix(suffix) == suffix \in {".docx", ".Docx"}

(* C20: a file whose extension is .txt or .docx in any letter case goes to *)
(* the flat-text or the document pipeline; a file with another extension   *)
(* gets a failure result with the message "Unsupported extension", and no  *)
(* file is created for it.                                                 *)
C20_DispatchByExtension ==
    [][done' = done + 1 =>
         LET f == batch[done + 1]
             r == results'[done + 1]
         IN  /\ IsTxtSuffix(f.suffix) =>
                    /\ r.message # "Unsupported extension"
                    /\ r.ok => fs'[r.dst].kind = "bytes"
                    /\ ~r.ok => r.message \in {"No such file or directory", "Permission denied"}
             /\ IsDocxSuffix(f.suffix) =>
                    /\ r.message # "Unsupported extension"
                    /\ r.ok => fs'[r.dst].kind = "docx"
                    /\ ~r.ok => r.message \in {"Package not found", "Permission denied"}
             /\ (~IsTxtSuffix(f.suffix) /\ ~IsDocxSuffix(f.suffix)) =>
                    /\ ~r.ok
                    /\ r.message = "Unsupported extension"
                    /\ fs' = fs]_vars

C20_Witness ==
    /\ Len(results) = 2
    /\ results[1].src.suffix = ".Docx"
    /\ results[1].ok
    /\ results[1].dst = "out/report.Docx"
    /\ fs["out/report.Docx"].kind = "docx"
    /\ results[2].src.suffix = ".doc"
    /\ results[2].message = "Unsupported extension"

---------------------------------------------------------------------------
(* C21: whatever the user does, pressing Start again while a batch is      *)
(* running included, at most one worker is running and at most one file's  *)
(* pipeline is in progress at any moment.                                  *)
C21_SingleSequentialWorker ==
    /\ Cardinality({w \in 1..Len(workers) : workers[w].running}) <= 1
    /\ Cardinality({w \in 1..Len(workers) : workers[w].current # NONE}) <= 1

(* C22: in the older revision, when a result arrives whose source is not   *)
(* in the current file list, on_progress raises nothing, leaves the bar as *)
(* it is and still shows the result in the done or the error label.        *)
C22_UnknownSourceHandled ==
    \A i \in 1..Len(progress_calls) :
        ~progress_calls[i].known =>
            /\ ~progress_calls[i].raised
            /\ progress_calls[i].value = progress_calls[i].bar_before
            /\ progress_calls[i].ok =>
                  /\ progress_calls[i].completed_names # <<>>
                  /\ Last(progress_calls[i].completed_names) = progress_calls[i].src
            /\ ~progress_calls[i].ok =>
                  /\ progress_calls[i].error_msgs # <<>>
                  /\ Last(progress_calls[i].error_msgs)[1] = progress_calls[i].src

(* The part of it that holds: the bar is left as it is.                    *)
UnknownSourceLeavesBar ==
    \A i \in 1..Len(progress_calls) :
        ~progress_calls[i].known =>
            progress_calls[i].value = progress_calls[i].bar_before

IsPrefix(s, t) == Len(s) <= Len(t) /\ s = SubSeq(t, 1, Len(s))

(* C23: every call of on_progress completes and asks the bar for a value   *)
(* within 0..100 that is not lower than the value of the previous call for *)
(* the same batch, whatever the user does to the file list meanwhile.      *)
C23_ProgressWellFormed ==
    \A i \in 1..Len(progress_calls) :
        /\ ~progress_calls[i].raised
        /\ progress_calls[i].value \in 0..100
        /\ \A j \in 1..(i - 1) :
              progress_calls[j].worker = progress_calls[i].worker =>
                  progress_calls[j].value <= progress_calls[i].value

(* C24: the files a worker attempts are the file list as it was when the   *)
(* worker was created, whatever the user does to the list while the batch  *)
(* runs.                                                                   *)
C24_BatchFixedAtStart ==
    \A w \in 1..Len(workers) :
        /\ IsPrefix(workers[w].attempted, workers[w].given)
        /\ ~workers[w].running => workers[w].attempted = workers[w].given

(* What the settings file says, when it holds an object.                   *)
FileSays(key) ==
    IF settings_file.kind = "json" /\ settings_file.type = "dict"
    THEN get(settings_file.items, key, JNull)
    ELSE JNull

NamesExistingPath(v) == v.type = "string" /\ v.str # "" /\ v.str \in dirs

(* C25: when the application is started, the output-folder field is filled *)
(* only if the behaviour saved at the last Start is fixed_path and the     *)
(* saved folder exists; a folder used under clear_on_exit or               *)
(* clear_after_conversion is not put back.                                 *)
C25_PathIsSessionOnly ==
    [][AppLaunch =>
          (app'.out_edit # "" =>
              /\ FileSays("path_behavior") = JStr("fixed_path")
              /\ NamesExistingPath(FileSays("output_path")))]_vars

(* C26: after any sequence of input edits, custom_undo calls and           *)
(* clear_input calls, input_history holds at most 50 entries, and          *)
(* history_index is -1 when the history is empty and a valid index of it   *)
(* otherwise.                                                              *)
C26_HistoryBounds ==
    /\ Len(clip.input_history) <= 50
    /\ clip.input_history = <<>> => clip.history_index = -1
    /\ clip.input_history # <<>> =>
          /\ 0 <= clip.history_index
          /\ clip.history_index < Len(clip.input_history)

C26_Witness ==
    /\ Len(clip.input_history) = HISTORY_LIMIT
    /\ clip.history_index = 0
    /\ clip.input_text = clip.input_history[1]

(* C27: whenever the history is non-empty, the entry under history_index   *)
(* is the text shown in the input box.                                     *)
C27_PointerTracksDisplay ==
    clip.input_history # <<>> =>
        clip.input_history[clip.history_index + 1] = clip.input_text

(* What custom_undo does on its own: when it moves the pointer, the box    *)
(* shows the entry recorded before the one the pointer was on, and the     *)
(* history is the same.                                                    *)
UndoRestoresPreviousEntry ==
    [][(CustomUndo /\ clip'.history_index # clip.history_index) =>
          /\ clip'.history_index = clip.history_index - 1
          /\ clip'.input_text = clip.input_history[clip.history_index]
          /\ clip'.input_history = clip.input_history]_vars

ButtonsEnabled == app.btn_start /\ app.btn_pick /\ app.btn_out

ButtonsDisabled == ~app.btn_start /\ ~app.btn_pick /\ ~app.btn_out

(* C28: in the older revision, from the launch of a worker until           *)
(* on_finished_all has handled its completion the Start, pick-files and    *)
(* output-folder buttons are disabled; every launched batch reaches        *)
(* on_finished_all, which enables the three buttons and sets the worker    *)
(* reference to None; a start_processing that returns early leaves the     *)
(* buttons and the worker as they were.                                    *)
C28_ButtonLock ==
    /\ [](app.worker # 0 => ButtonsDisabled)
    /\ [](app.worker # 0 => <>(app.worker = 0 /\ ButtonsEnabled))
    /\ [][OnFinishedAll_000 => (app'.worker = 0 /\ ButtonsEnabled')]_vars
    /\ [][StartProcessing_000 =>
            \/ /\ Len(workers') = Len(workers) + 1
               /\ app'.worker = Len(workers')
               /\ workers'[app'.worker].running
            \/ /\ app' = app
               /\ workers' = workers]_vars
    /\ [][(/\ StartProcessing_000
           /\ (app.files = <<>> \/ app.out_edit = "" \/ app.out_edit \notin dirs)) =>
              (app' = app /\ workers' = workers)]_vars

C28_Witness ==
    /\ Len(workers) = 2
    /\ ~workers[1].running
    /\ workers[2].running
    /\ workers[2].current # NONE
    /\ app.worker = 2
    /\ ButtonsDisabled
    /\ queue = <<>>

(* C29: for every content of the settings file (missing, unreadable, not   *)
(* JSON, JSON of any shape) load_settings returns a mapping whose          *)
(* path_behavior is one of clear_on_exit, fixed_path and                   *)
(* clear_after_conversion; it is fixed_path only when output_path is a     *)
(* non-empty name of an existing path, and a file that says fixed_path     *)
(* with any other output_path gives clear_on_exit with output_path "".     *)
C29_SettingsValidated ==
    loaded # <<>> =>
        LET settings == loaded[1]
        IN  /\ "path_behavior" \in DOMAIN settings
            /\ settings["path_behavior"].type = "string"
            /\ settings["path_behavior"].str \in PATH_BEHAVIORS
            /\ settings["path_behavior"] = JStr("fixed_path") =>
                  /\ "output_path" \in DOMAIN settings
                  /\ NamesExistingPath(settings["output_path"])
            /\ (/\ FileSays("path_behavior") = JStr("fixed_path")
                /\ ~NamesExistingPath(FileSays("output_path"))) =>
                  /\ settings["path_behavior"] = JStr("clear_on_exit")
                  /\ "output_path" \in DOMAIN settings
                  /\ settings["output_path"] = JStr("")

C29_Witness ==
    /\ loaded # <<>>
    /\ FileSays("path_behavior") = JStr("fixed_path")
    /\ FileSays("output_path") = JStr("C:/gone")
    /\ FileSays("language") = JStr("")
    /\ dirs = {"C:/out"}
    /\ loaded[1]["path_behavior"] = JStr("clear_on_exit")
    /\ loaded[1]["language"] = JStr("")

(* C30: for every decoded text t, process_text_lines(t) is the text that   *)
(* process_txt_file computes from t before encoding it, the empty text     *)
(* included: each step of the clipboard transform gives what the file      *)
(* transform gives for the same text, and the other way round.             *)
C30_ClipboardAndFileAgree ==
    \A i \in 1..Len(via) :
        /\ via[i] = "clipboard" => hist[i + 1] = txt_new_text(hist[i])
        /\ via[i] = "file" => hist[i + 1] = process_text_lines(hist[i])

C30_Witness ==
    /\ Len(hist) = 3
    /\ via = <<"clipboard", "file">>
    /\ hist[2] # hist[1]
    /\ Len(splitlines(hist[1])) >= 2
    /\ hist[2] = txt_new_text(hist[1])

=============================================================================
